---- MODULE Spec2Model ----
(***************************************************************************)
(* Model of the guidance request pipeline of the sos-app LLM service:      *)
(* PII anonymization, cache lookup, ordered provider invocation, response  *)
(* validation and sanitization, parsing, cache population and the          *)
(* fallback knowledge base.                                                *)
(*                                                                         *)
(* A text is a sequence of one-character strings, so that the regular      *)
(* expressions and the substring tests of the code are computed character  *)
(* by character.                                                           *)
(***************************************************************************)
EXTENDS Integers, Sequences, FiniteSets, TLC

(***************************************************************************)
(* Characters and the str methods the code uses.                          *)
(***************************************************************************)
Digits == {"0", "1", "2", "3", "4", "5", "6", "7", "8", "9"}

LowerSeq == <<"a", "b", "c", "d", "e", "f", "g", "h", "i", "j", "k", "l", "m",
              "n", "o", "p", "q", "r", "s", "t", "u", "v", "w", "x", "y", "z">>

UpperSeq == <<"A", "B", "C", "D", "E", "F", "G", "H", "I", "J", "K", "L", "M",
              "N", "O", "P", "Q", "R", "S", "T", "U", "V", "W", "X", "Y", "Z">>

LowerLetters == {LowerSeq[i] : i \in DOMAIN LowerSeq}

UpperLetters == {UpperSeq[i] : i \in DOMAIN UpperSeq}

Letters == LowerLetters \cup UpperLetters

\* \s of the re module, and the characters str.strip() removes
Whitespace == {" ", "\n", "\t"}

\* stands for the one character U+2022 (the module is ASCII)
Bullet == "BULLET"

\* \w of the re module
IsWordChar(c) == c \in Letters \cup Digits \cup {"_"}

lowerChar(c) ==
  IF c \in UpperLetters
  THEN LowerSeq[CHOOSE i \in DOMAIN UpperSeq : UpperSeq[i] = c]
  ELSE c

upperChar(c) ==
  IF c \in LowerLetters
  THEN UpperSeq[CHOOSE i \in DOMAIN LowerSeq : LowerSeq[i] = c]
  ELSE c

lower(s) == [i \in 1..Len(s) |-> lowerChar(s[i])]

upper(s) == [i \in 1..Len(s) |-> upperChar(s[i])]

\* s[a:b] of Python, on 1-based positions a (first) .. b (one past the last)
Slice(s, a, b) == SubSeq(s, a, b - 1)

\* w occurs in s at position i
OccursAt(s, i, w) ==
  /\ i >= 1
  /\ i + Len(w) - 1 <= Len(s)
  /\ \A k \in 1..Len(w) : s[i + k - 1] = w[k]

\* `w in s` of Python
Contains(s, w) == \E i \in 1..(Len(s) + 1) : OccursAt(s, i, w)

startswith(s, w) == OccursAt(s, 1, w)

\* str.strip(): leading and trailing whitespace removed
strip(s) ==
  LET keep == {i \in 1..Len(s) : s[i] \notin Whitespace}
  IN  IF keep = {} THEN <<>>
      ELSE LET a == CHOOSE i \in keep : \A j \in keep : i <= j
               b == CHOOSE i \in keep : \A j \in keep : i >= j
           IN  SubSeq(s, a, b)

\* str.lstrip(chars): leading characters of the set removed
lstrip(s, chars) ==
  LET keep == {i \in 1..Len(s) : s[i] \notin chars}
  IN  IF keep = {} THEN <<>>
      ELSE SubSeq(s, CHOOSE i \in keep : \A j \in keep : i <= j, Len(s))

\* str.split(sep) for a one-character separator: the pieces between the
\* separators, empty pieces kept
RECURSIVE splitFrom(_, _, _)
splitFrom(s, sep, i) ==
  LET at == {j \in i..Len(s) : s[j] = sep}
  IN  IF at = {} THEN <<Slice(s, i, Len(s) + 1)>>
      ELSE LET j == CHOOSE x \in at : \A y \in at : x <= y
           IN  <<Slice(s, i, j)>> \o splitFrom(s, sep, j + 1)

split(s, sep) == splitFrom(s, sep, 1)

\* line.split(":", 1)[1]: the text after the first colon
afterFirstColon(s) ==
  LET at == {j \in 1..Len(s) : s[j] = ":"}
      j  == CHOOSE x \in at : \A y \in at : x <= y
  IN  Slice(s, j + 1, Len(s) + 1)

(***************************************************************************)
(* Regular-expression building blocks.  A position i is 1-based; a match   *)
(* that starts at i is reported as the position one past its last          *)
(* character, and 0 stands for no match.                                   *)
(***************************************************************************)
CharAt(s, i) == IF i >= 1 /\ i <= Len(s) THEN s[i] ELSE ""

\* \b between s[i-1] and s[i]
WordBoundary(s, i) == IsWordChar(CharAt(s, i - 1)) # IsWordChar(CharAt(s, i))

\* the end of the longest run of characters of class cls that starts at i
RECURSIVE RunEnd(_, _, _)
RunEnd(s, i, cls) ==
  IF i <= Len(s) /\ s[i] \in cls THEN RunEnd(s, i + 1, cls) ELSE i

\* \d{n} at i
DigitsAt(s, i, n) == \A k \in 0..(n - 1) : CharAt(s, i + k) \in Digits

\* one optional character of class cls at i: the position after it
OptionalAt(s, i, cls) == IF CharAt(s, i) \in cls THEN i + 1 ELSE i

\* a literal word at i, letters compared without case
OccursAtNoCase(s, i, w) ==
  /\ i >= 1
  /\ i + Len(w) - 1 <= Len(s)
  /\ \A k \in 1..Len(w) : lowerChar(s[i + k - 1]) = lowerChar(w[k])

Max(S) == CHOOSE x \in S : \A y \in S : x >= y

(***************************************************************************)
(* anonymizer.py: the PII patterns and anonymize_text.                     *)
(***************************************************************************)
\* the end of the longest run of characters outside cls that starts at i
RECURSIVE RunEndNot(_, _, _)
RunEndNot(s, i, cls) ==
  IF i <= Len(s) /\ s[i] \notin cls THEN RunEndNot(s, i + 1, cls) ELSE i

\* \b\d{3}[-.]?\d{3}[-.]?\d{4}\b
PHONE_PATTERN(s, i) ==
  LET a == OptionalAt(s, i + 3, {"-", "."})
      b == OptionalAt(s, a + 3, {"-", "."})
      e == b + 4
  IN  IF /\ WordBoundary(s, i)
         /\ DigitsAt(s, i, 3)
         /\ DigitsAt(s, a, 3)
         /\ DigitsAt(s, b, 4)
         /\ WordBoundary(s, e)
      THEN e ELSE 0

EmailLocalChars == Letters \cup Digits \cup {".", "_", "%", "+", "-"}

EmailDomainChars == Letters \cup Digits \cup {".", "-"}

\* the class [A-Z|a-z] of the source holds the bar too
EmailTldChars == Letters \cup {"|"}

\* \b[A-Za-z0-9._%+-]+@[A-Za-z0-9.-]+\.[A-Z|a-z]{2,}\b
\* The local part is the whole run before the "@"; the domain is greedy, so
\* the match ends after the last dot of the domain run that is followed by
\* two or more TLD characters ending at a word boundary.
EMAIL_PATTERN(s, i) ==
  LET k    == RunEnd(s, i, EmailLocalChars)
      m    == RunEnd(s, k + 1, EmailDomainChars)
      ends == {e \in (k + 4)..(Len(s) + 1) :
                 \E d \in (k + 2)..(m - 1) :
                    /\ s[d] = "."
                    /\ e >= d + 3
                    /\ e <= RunEnd(s, d + 1, EmailTldChars)
                    /\ WordBoundary(s, e)}
  IN  IF /\ WordBoundary(s, i)
         /\ k > i
         /\ CharAt(s, k) = "@"
         /\ ends # {}
      THEN Max(ends) ELSE 0

\* \b\d{3}-\d{2}-\d{4}\b
SSN_PATTERN(s, i) ==
  IF /\ WordBoundary(s, i)
     /\ DigitsAt(s, i, 3)
     /\ CharAt(s, i + 3) = "-"
     /\ DigitsAt(s, i + 4, 2)
     /\ CharAt(s, i + 6) = "-"
     /\ DigitsAt(s, i + 7, 4)
     /\ WordBoundary(s, i + 11)
  THEN i + 11 ELSE 0

\* \b\d{4}[\s-]?\d{4}[\s-]?\d{4}[\s-]?\d{4}\b
CREDIT_CARD_PATTERN(s, i) ==
  LET sep == Whitespace \cup {"-"}
      a   == OptionalAt(s, i + 4, sep)
      b   == OptionalAt(s, a + 4, sep)
      c   == OptionalAt(s, b + 4, sep)
      e   == c + 4
  IN  IF /\ WordBoundary(s, i)
         /\ DigitsAt(s, i, 4)
         /\ DigitsAt(s, a, 4)
         /\ DigitsAt(s, b, 4)
         /\ DigitsAt(s, c, 4)
         /\ WordBoundary(s, e)
      THEN e ELSE 0

\* https?://[^\s]+
URL_PATTERN(s, i) ==
  LET a == IF OccursAt(s, i, <<"h", "t", "t", "p", "s">>) THEN i + 5 ELSE i + 4
      e == RunEndNot(s, a + 3, Whitespace)
  IN  IF /\ OccursAt(s, i, <<"h", "t", "t", "p">>)
         /\ OccursAt(s, a, <<":", "/", "/">>)
         /\ e > a + 3
      THEN e ELSE 0

NAME_TITLES == <<<<"m", "r">>, <<"m", "r", "s">>, <<"m", "s">>, <<"d", "r">>, <<"p", "r", "o", "f">>, <<"m", "i", "s", "s">>>>

\* (?:\s+[A-Z][a-z]+)* under re.IGNORECASE, from position j: the words
\* <<first, one past last>> of the chain of whitespace-separated runs of
\* two or more letters
RECURSIVE NameWords(_, _)
NameWords(s, j) ==
  LET a == RunEnd(s, j, Whitespace)
      b == RunEnd(s, a, Letters)
  IN  IF a > j /\ b - a >= 2 THEN {<<a, b>>} \cup NameWords(s, b) ELSE {}

\* \b{title}\.?\s+[A-Z][a-z]+(?:\s+[A-Z][a-z]+)*\b under re.IGNORECASE
TitlePattern(title, s, i) ==
  LET j    == OptionalAt(s, i + Len(title), {"."})
      ends == {w[2] : w \in {x \in NameWords(s, j) : WordBoundary(s, x[2])}}
  IN  IF /\ WordBoundary(s, i)
         /\ OccursAtNoCase(s, i, title)
         /\ ends # {}
      THEN Max(ends) ELSE 0

AddressSuffixes == {<<"s", "t", "r", "e", "e", "t">>,
                    <<"s", "t">>,
                    <<"a", "v", "e", "n", "u", "e">>,
                    <<"a", "v", "e">>,
                    <<"r", "o", "a", "d">>,
                    <<"r", "d">>,
                    <<"b", "o", "u", "l", "e", "v", "a", "r", "d">>,
                    <<"b", "l", "v", "d">>,
                    <<"l", "a", "n", "e">>,
                    <<"l", "n">>,
                    <<"d", "r", "i", "v", "e">>,
                    <<"d", "r">>}

\* \b\d+\s+[A-Z][a-z]+(?:\s+[A-Z][a-z]+)*\s+(Street|St|Avenue|Ave|Road|Rd|
\* Boulevard|Blvd|Lane|Ln|Drive|Dr)\b under re.IGNORECASE
address_pattern(s, i) ==
  LET d     == RunEnd(s, i, Digits)
      first == RunEnd(s, d, Whitespace)
      ends  == {w[2] : w \in {x \in NameWords(s, d) :
                                 /\ x[1] # first
                                 /\ lower(Slice(s, x[1], x[2])) \in AddressSuffixes
                                 /\ WordBoundary(s, x[2])}}
  IN  IF /\ WordBoundary(s, i)
         /\ d > i
         /\ ends # {}
      THEN Max(ends) ELSE 0

\* address_pattern of detect_pii:
\* \b\d+\s+[A-Z][a-z]+(?:\s+[A-Z][a-z]+)*\s+(Street|St|Avenue|Ave|Road|Rd)\b
\* under re.IGNORECASE
detect_address_pattern(s, i) ==
  LET suffixes == {<<"s", "t", "r", "e", "e", "t">>, <<"s", "t">>,
                   <<"a", "v", "e", "n", "u", "e">>, <<"a", "v", "e">>,
                   <<"r", "o", "a", "d">>, <<"r", "d">>}
      d     == RunEnd(s, i, Digits)
      first == RunEnd(s, d, Whitespace)
      ends  == {w[2] : w \in {x \in NameWords(s, d) :
                                 /\ x[1] # first
                                 /\ lower(Slice(s, x[1], x[2])) \in suffixes
                                 /\ WordBoundary(s, x[2])}}
  IN  IF /\ WordBoundary(s, i)
         /\ d > i
         /\ ends # {}
      THEN Max(ends) ELSE 0

\* <[^>]+> of sanitize_response: "<", one or more characters other than
\* ">", then ">"
TagPattern(s, i) ==
  LET e == RunEndNot(s, i + 1, {">"})
  IN  IF CharAt(s, i) = "<" /\ e > i + 1 /\ CharAt(s, e) = ">" THEN e + 1 ELSE 0

\* \s+ of sanitize_response
WhitespaceRun(s, i) ==
  LET e == RunEnd(s, i, Whitespace) IN IF e > i THEN e ELSE 0

\* the end of the match of pattern p at i (0: none)
MatchEnd(p, s, i) ==
  CASE p = "PHONE"       -> PHONE_PATTERN(s, i)
    [] p = "EMAIL"       -> EMAIL_PATTERN(s, i)
    [] p = "SSN"         -> SSN_PATTERN(s, i)
    [] p = "CREDIT_CARD" -> CREDIT_CARD_PATTERN(s, i)
    [] p = "URL"         -> URL_PATTERN(s, i)
    [] p = "ADDRESS"     -> address_pattern(s, i)
    [] p = "DETECT_ADDRESS" -> detect_address_pattern(s, i)
    [] p = "TAG"         -> TagPattern(s, i)
    [] p = "WHITESPACE"  -> WhitespaceRun(s, i)
    [] OTHER             -> TitlePattern(p, s, i)

\* pattern.sub(repl, s): leftmost matches, not overlapping, left to right
RECURSIVE SubFrom(_, _, _, _)
SubFrom(p, repl, s, i) ==
  IF i > Len(s) THEN <<>>
  ELSE LET e == MatchEnd(p, s, i)
       IN  IF e > i THEN repl \o SubFrom(p, repl, s, e)
           ELSE <<s[i]>> \o SubFrom(p, repl, s, i + 1)

Sub(p, repl, s) == SubFrom(p, repl, s, 1)

\* the substitutions of anonymize_text in the order the source applies
\* them: the five patterns, the loop over NAME_TITLES, the address pattern
Replacements ==
  <<[p |-> "PHONE", repl |-> <<"[", "P", "H", "O", "N", "E", "]">>],
    [p |-> "EMAIL", repl |-> <<"[", "E", "M", "A", "I", "L", "]">>],
    [p |-> "SSN", repl |-> <<"[", "S", "S", "N", "]">>],
    [p |-> "CREDIT_CARD", repl |-> <<"[", "C", "R", "E", "D", "I", "T", "_", "C", "A", "R", "D", "]">>],
    [p |-> "URL", repl |-> <<"[", "U", "R", "L", "]">>]>>
  \o [n \in 1..Len(NAME_TITLES) |->
        [p |-> NAME_TITLES[n], repl |-> <<"[">> \o upper(NAME_TITLES[n]) \o <<"]">>]]
  \o <<[p |-> "ADDRESS", repl |-> <<"[", "A", "D", "D", "R", "E", "S", "S", "]">>]>>

\* the substitutions from the n-th on, each applied to the result of the last
RECURSIVE SubAll(_, _)
SubAll(s, n) ==
  IF n > Len(Replacements) THEN s
  ELSE SubAll(Sub(Replacements[n].p, Replacements[n].repl, s), n + 1)

anonymize_text(text) ==
  IF text = <<>> THEN text ELSE SubAll(text, 1)

\* len(pattern.findall(s)): the matches counted from the left, none
\* overlapping another
RECURSIVE findall(_, _, _)
findall(p, s, i) ==
  IF i > Len(s) THEN 0
  ELSE LET e == MatchEnd(p, s, i)
       IN  IF e > i THEN 1 + findall(p, s, e) ELSE findall(p, s, i + 1)

\* detect_pii(text): the count of each kind of PII and the has_pii flag
detect_pii(text) ==
  LET count(p) == IF text = <<>> THEN 0 ELSE findall(p, text, 1)
      found == [phone_numbers |-> count("PHONE"),
                emails |-> count("EMAIL"),
                ssn |-> count("SSN"),
                credit_cards |-> count("CREDIT_CARD"),
                urls |-> count("URL"),
                addresses |-> count("DETECT_ADDRESS")]
  IN  [has_pii |-> \E k \in DOMAIN found : found[k] > 0] @@ found

(***************************************************************************)
(* response_validator.py: validate_llm_response and sanitize_response.     *)
(***************************************************************************)
\* re.search of a pattern given as a predicate on the start position
\* (the \s+ of these patterns is followed by a word, so it takes the whole
\* whitespace run)
AfterSpaces(s, i) == RunEnd(s, i, Whitespace)

\* some word of ws occurs at i without regard to case; the set of ends
WordEnds(s, i, ws) == {i + Len(w) : w \in {x \in ws : OccursAtNoCase(s, i, x)}}

\* (?i)\b(kill|suicide|self-harm|overdose)\b
HarmfulPattern1(s) ==
  \E i \in 1..Len(s) :
     /\ WordBoundary(s, i)
     /\ \E e \in WordEnds(s, i, {<<"k", "i", "l", "l">>, <<"s", "u", "i", "c", "i", "d", "e">>, <<"s", "e", "l", "f", "-", "h", "a", "r", "m">>, <<"o", "v", "e", "r", "d", "o", "s", "e">>}) :
           WordBoundary(s, e)

\* (?i)\b(ignore medical advice|don't call|skip)\s+(doctor|hospital|911|emergency)
HarmfulPattern2(s) ==
  \E i \in 1..Len(s) :
     /\ WordBoundary(s, i)
     /\ \E e \in WordEnds(s, i, {<<"i", "g", "n", "o", "r", "e", " ", "m", "e", "d", "i", "c", "a", "l", " ", "a", "d", "v", "i", "c", "e">>, <<"d", "o", "n", "'", "t", " ", "c", "a", "l", "l">>, <<"s", "k", "i", "p">>}) :
           /\ AfterSpaces(s, e) > e
           /\ WordEnds(s, AfterSpaces(s, e),
                       {<<"d", "o", "c", "t", "o", "r">>, <<"h", "o", "s", "p", "i", "t", "a", "l">>, <<"9", "1", "1">>, <<"e", "m", "e", "r", "g", "e", "n", "c", "y">>}) # {}

\* (?i)\bguaranteed?\s+(cure|recovery|success)\b
HarmfulPattern3(s) ==
  \E i \in 1..Len(s) :
     /\ WordBoundary(s, i)
     /\ OccursAtNoCase(s, i, <<"g", "u", "a", "r", "a", "n", "t", "e", "e">>)
     /\ LET e == OptionalAt(s, i + 9, {"d", "D"})
        IN  /\ AfterSpaces(s, e) > e
            /\ \E f \in WordEnds(s, AfterSpaces(s, e),
                                 {<<"c", "u", "r", "e">>, <<"r", "e", "c", "o", "v", "e", "r", "y">>, <<"s", "u", "c", "c", "e", "s", "s">>}) :
                  WordBoundary(s, f)

\* the error message of each pattern of HARMFUL_PATTERNS, in order
HARMFUL_PATTERNS(s) ==
  (IF HarmfulPattern1(s) THEN <<"Potentially harmful content detected: 1">> ELSE <<>>)
  \o (IF HarmfulPattern2(s) THEN <<"Potentially harmful content detected: 2">> ELSE <<>>)
  \o (IF HarmfulPattern3(s) THEN <<"Potentially harmful content detected: 3">> ELSE <<>>)

REQUIRED_DISCLAIMER_KEYWORDS ==
  <<<<"n", "o", "t", " ", "a", " ", "s", "u", "b", "s", "t", "i", "t", "u", "t", "e">>,
    <<"p", "r", "o", "f", "e", "s", "s", "i", "o", "n", "a", "l", " ", "m", "e", "d", "i", "c", "a", "l">>,
    <<"e", "m", "e", "r", "g", "e", "n", "c", "y", " ", "s", "e", "r", "v", "i", "c", "e", "s">>,
    <<"9", "1", "1">>>>

\* \b<first>\s+(<second>)\b without regard to case
TwoWordPattern(s, first, seconds) ==
  \E i \in 1..Len(s) :
     /\ WordBoundary(s, i)
     /\ OccursAtNoCase(s, i, first)
     /\ AfterSpaces(s, i + Len(first)) > i + Len(first)
     /\ \E f \in WordEnds(s, AfterSpaces(s, i + Len(first)), seconds) :
           WordBoundary(s, f)

\* the warnings of misinformation_patterns, in order
misinformation_patterns(s) ==
  (IF TwoWordPattern(s, <<"a", "l", "w", "a", "y", "s">>, {<<"s", "a", "f", "e">>, <<"w", "o", "r", "k", "s">>, <<"e", "f", "f", "e", "c", "t", "i", "v", "e">>})
   THEN <<"Overly definitive language detected: 1">> ELSE <<>>)
  \o (IF TwoWordPattern(s, <<"n", "e", "v", "e", "r">>, {<<"d", "a", "n", "g", "e", "r", "o", "u", "s">>, <<"h", "a", "r", "m", "f", "u", "l">>, <<"r", "i", "s", "k", "y">>})
      THEN <<"Overly definitive language detected: 2">> ELSE <<>>)
  \o (IF TwoWordPattern(s, <<"1", "0", "0", "%">>, {<<"s", "a", "f", "e">>, <<"e", "f", "f", "e", "c", "t", "i", "v", "e">>, <<"c", "e", "r", "t", "a", "i", "n">>})
      THEN <<"Overly definitive language detected: 3">> ELSE <<>>)

\* (?i)\b(w1|w2|...)\b
AnyWord(s, ws) ==
  \E i \in 1..Len(s) :
     /\ WordBoundary(s, i)
     /\ \E e \in WordEnds(s, i, ws) : WordBoundary(s, e)

MinResponseLength == 50

MaxResponseLength == 5000

\* the number of REQUIRED_DISCLAIMER_KEYWORDS that are looked for
DisclaimerKeywordsChecked == 2

\* validate_llm_response marking a text under the minimum length invalid
\* next to its warning
validate_llm_response_brief_invalid(response_text, response_type, require_disclaimer) ==
  IF response_text = <<>> \/ Len(strip(response_text)) = 0
  THEN [is_valid |-> FALSE, errors |-> <<"Response is empty">>,
        warnings |-> <<>>, severity |-> "error"]
  ELSE
    LET errors == HARMFUL_PATTERNS(response_text)
        has_disclaimer ==
          \E k \in 1..DisclaimerKeywordsChecked :
             Contains(lower(response_text), lower(REQUIRED_DISCLAIMER_KEYWORDS[k]))
        w1 == IF require_disclaimer /\ ~has_disclaimer
              THEN <<"Response should include appropriate medical disclaimer">>
              ELSE <<>>
        w2 == IF Len(response_text) < MinResponseLength
              THEN <<"Response may be too brief">>
              ELSE IF Len(response_text) > MaxResponseLength
                   THEN <<"Response may be too verbose">>
                   ELSE <<>>
        w3 == misinformation_patterns(response_text)
        w4 == IF /\ response_type = "assessment"
                 /\ AnyWord(response_text, {<<"s", "e", "v", "e", "r", "e">>, <<"c", "r", "i", "t", "i", "c", "a", "l">>, <<"l", "i", "f", "e", "-", "t", "h", "r", "e", "a", "t", "e", "n", "i", "n", "g">>, <<"s", "e", "r", "i", "o", "u", "s">>})
                 /\ ~AnyWord(response_text, {<<"c", "a", "l", "l">>, <<"c", "o", "n", "t", "a", "c", "t">>, <<"e", "m", "e", "r", "g", "e", "n", "c", "y">>, <<"9", "1", "1">>, <<"a", "m", "b", "u", "l", "a", "n", "c", "e">>})
              THEN <<"Severe emergency detected but no call to action for emergency services">>
              ELSE <<>>
    IN  [is_valid |-> errors = <<>> /\ Len(response_text) >= MinResponseLength,
         errors   |-> errors,
         warnings |-> w1 \o w2 \o w3 \o w4,
         severity |-> IF errors # <<>> THEN "error"
                      ELSE IF w1 # <<>> THEN "warning" ELSE "info"]

\* validate_llm_response without the return that follows the empty check:
\* the later rules run on the empty text as well
validate_llm_response_no_return(response_text, response_type, require_disclaimer) ==
  LET empty  == response_text = <<>> \/ Len(strip(response_text)) = 0
      errors == (IF empty THEN <<"Response is empty">> ELSE <<>>)
                \o HARMFUL_PATTERNS(response_text)
      has_disclaimer ==
        \E k \in 1..DisclaimerKeywordsChecked :
           Contains(lower(response_text), lower(REQUIRED_DISCLAIMER_KEYWORDS[k]))
      w1 == IF require_disclaimer /\ ~has_disclaimer
            THEN <<"Response should include appropriate medical disclaimer">>
            ELSE <<>>
      w2 == IF Len(response_text) < MinResponseLength
            THEN <<"Response may be too brief">>
            ELSE <<>>
  IN  [is_valid |-> errors = <<>>,
       errors   |-> errors,
       warnings |-> w1 \o w2 \o misinformation_patterns(response_text),
       severity |-> IF errors # <<>> THEN "error"
                    ELSE IF w1 # <<>> THEN "warning" ELSE "info"]

\* validate_llm_response appending the error of a harmful pattern without
\* clearing is_valid
validate_llm_response_error_keeps_valid(response_text, response_type, require_disclaimer) ==
  IF response_text = <<>> \/ Len(strip(response_text)) = 0
  THEN [is_valid |-> FALSE, errors |-> <<"Response is empty">>,
        warnings |-> <<>>, severity |-> "error"]
  ELSE
    LET errors == HARMFUL_PATTERNS(response_text)
        has_disclaimer ==
          \E k \in 1..DisclaimerKeywordsChecked :
             Contains(lower(response_text), lower(REQUIRED_DISCLAIMER_KEYWORDS[k]))
        w1 == IF require_disclaimer /\ ~has_disclaimer
              THEN <<"Response should include appropriate medical disclaimer">>
              ELSE <<>>
        w2 == IF Len(response_text) < MinResponseLength
              THEN <<"Response may be too brief">>
              ELSE IF Len(response_text) > MaxResponseLength
                   THEN <<"Response may be too verbose">>
                   ELSE <<>>
        w3 == misinformation_patterns(response_text)
        w4 == IF /\ response_type = "assessment"
                 /\ AnyWord(response_text, {<<"s", "e", "v", "e", "r", "e">>, <<"c", "r", "i", "t", "i", "c", "a", "l">>, <<"l", "i", "f", "e", "-", "t", "h", "r", "e", "a", "t", "e", "n", "i", "n", "g">>, <<"s", "e", "r", "i", "o", "u", "s">>})
                 /\ ~AnyWord(response_text, {<<"c", "a", "l", "l">>, <<"c", "o", "n", "t", "a", "c", "t">>, <<"e", "m", "e", "r", "g", "e", "n", "c", "y">>, <<"9", "1", "1">>, <<"a", "m", "b", "u", "l", "a", "n", "c", "e">>})
              THEN <<"Severe emergency detected but no call to action for emergency services">>
              ELSE <<>>
    IN  [is_valid |-> TRUE,
         errors   |-> errors,
         warnings |-> w1 \o w2 \o w3 \o w4,
         severity |-> IF errors # <<>> THEN "error"
                      ELSE IF w1 # <<>> THEN "warning" ELSE "info"]

validate_llm_response(response_text, response_type, require_disclaimer) ==
  IF response_text = <<>> \/ Len(strip(response_text)) = 0
  THEN [is_valid |-> FALSE, errors |-> <<"Response is empty">>,
        warnings |-> <<>>, severity |-> "error"]
  ELSE
    LET errors == HARMFUL_PATTERNS(response_text)
        has_disclaimer ==
          \E k \in 1..DisclaimerKeywordsChecked :
             Contains(lower(response_text), lower(REQUIRED_DISCLAIMER_KEYWORDS[k]))
        w1 == IF require_disclaimer /\ ~has_disclaimer
              THEN <<"Response should include appropriate medical disclaimer">>
              ELSE <<>>
        w2 == IF Len(response_text) < MinResponseLength
              THEN <<"Response may be too brief">>
              ELSE IF Len(response_text) > MaxResponseLength
                   THEN <<"Response may be too verbose">>
                   ELSE <<>>
        w3 == misinformation_patterns(response_text)
        w4 == IF /\ response_type = "assessment"
                 /\ AnyWord(response_text, {<<"s", "e", "v", "e", "r", "e">>, <<"c", "r", "i", "t", "i", "c", "a", "l">>, <<"l", "i", "f", "e", "-", "t", "h", "r", "e", "a", "t", "e", "n", "i", "n", "g">>, <<"s", "e", "r", "i", "o", "u", "s">>})
                 /\ ~AnyWord(response_text, {<<"c", "a", "l", "l">>, <<"c", "o", "n", "t", "a", "c", "t">>, <<"e", "m", "e", "r", "g", "e", "n", "c", "y">>, <<"9", "1", "1">>, <<"a", "m", "b", "u", "l", "a", "n", "c", "e">>})
              THEN <<"Severe emergency detected but no call to action for emergency services">>
              ELSE <<>>
    IN  [is_valid |-> errors = <<>>,
         errors   |-> errors,
         warnings |-> w1 \o w2 \o w3 \o w4,
         severity |-> IF errors # <<>> THEN "error"
                      ELSE IF w1 # <<>> THEN "warning" ELSE "info"]

sanitize_response(response_text) ==
  LET t1 == Sub("TAG", <<>>, response_text)
      t2 == strip(Sub("WHITESPACE", <<" ">>, t1))
      t3 == Sub("SSN", <<"[", "R", "E", "D", "A", "C", "T", "E", "D", "]">>, t2)
  IN  Sub("PHONE", <<"[", "R", "E", "D", "A", "C", "T", "E", "D", "]">>, t3)

(***************************************************************************)
(* emergency_context.py: the enumerations.  An Optional value is a         *)
(* sequence: <<>> is None and <<v>> is the value v.                        *)
(***************************************************************************)
EmergencyType == {"medical", "accident", "fire", "violence", "natural_disaster", "other"}

SeverityLevel == {"critical", "high", "medium", "low"}

None == <<>>

Some(v) == <<v>>

(***************************************************************************)
(* fallback_service.py: FallbackService.                                   *)
(***************************************************************************)
FALLBACK_ASSESSMENTS ==
  [medical |->
     [severity |-> "high",
      assessment |-> <<"T", "h", "i", "s", " ", "a", "p", "p", "e", "a", "r", "s", " ", "t", "o", " ", "b", "e", " ", "a", " ", "m", "e", "d", "i", "c", "a", "l", " ", "e", "m", "e", "r", "g", "e", "n", "c", "y", ".", " ", "I", "m", "m", "e", "d", "i", "a", "t", "e", " ", "p", "r", "o", "f", "e", "s", "s", "i", "o", "n", "a", "l", " ", "h", "e", "l", "p", " ", "i", "s", " ", "r", "e", "c", "o", "m", "m", "e", "n", "d", "e", "d", ".">>,
      recommendations |->
        <<<<"C", "a", "l", "l", " ", "9", "1", "1", " ", "o", "r", " ", "l", "o", "c", "a", "l", " ", "e", "m", "e", "r", "g", "e", "n", "c", "y", " ", "s", "e", "r", "v", "i", "c", "e", "s", " ", "i", "m", "m", "e", "d", "i", "a", "t", "e", "l", "y">>,
          <<"S", "t", "a", "y", " ", "c", "a", "l", "m", " ", "a", "n", "d", " ", "k", "e", "e", "p", " ", "t", "h", "e", " ", "p", "e", "r", "s", "o", "n", " ", "c", "o", "m", "f", "o", "r", "t", "a", "b", "l", "e">>,
          <<"D", "o", " ", "n", "o", "t", " ", "m", "o", "v", "e", " ", "t", "h", "e", " ", "p", "e", "r", "s", "o", "n", " ", "u", "n", "l", "e", "s", "s", " ", "t", "h", "e", "r", "e", " ", "i", "s", " ", "i", "m", "m", "e", "d", "i", "a", "t", "e", " ", "d", "a", "n", "g", "e", "r">>,
          <<"M", "o", "n", "i", "t", "o", "r", " ", "v", "i", "t", "a", "l", " ", "s", "i", "g", "n", "s", " ", "(", "b", "r", "e", "a", "t", "h", "i", "n", "g", ",", " ", "p", "u", "l", "s", "e", ")", " ", "i", "f", " ", "p", "o", "s", "s", "i", "b", "l", "e">>,
          <<"P", "r", "o", "v", "i", "d", "e", " ", "e", "m", "e", "r", "g", "e", "n", "c", "y", " ", "i", "n", "f", "o", "r", "m", "a", "t", "i", "o", "n", " ", "t", "o", " ", "r", "e", "s", "p", "o", "n", "d", "e", "r", "s", " ", "w", "h", "e", "n", " ", "t", "h", "e", "y", " ", "a", "r", "r", "i", "v", "e">>>>,
      call_emergency_services |-> TRUE],
   accident |->
     [severity |-> "high",
      assessment |-> <<"A", "c", "c", "i", "d", "e", "n", "t", " ", "s", "i", "t", "u", "a", "t", "i", "o", "n", "s", " ", "c", "a", "n", " ", "i", "n", "v", "o", "l", "v", "e", " ", "s", "e", "r", "i", "o", "u", "s", " ", "i", "n", "j", "u", "r", "i", "e", "s", ".", " ", "P", "r", "o", "f", "e", "s", "s", "i", "o", "n", "a", "l", " ", "e", "m", "e", "r", "g", "e", "n", "c", "y", " ", "r", "e", "s", "p", "o", "n", "s", "e", " ", "i", "s", " ", "n", "e", "e", "d", "e", "d", ".">>,
      recommendations |->
        <<<<"C", "a", "l", "l", " ", "9", "1", "1", " ", "i", "m", "m", "e", "d", "i", "a", "t", "e", "l", "y">>,
          <<"E", "n", "s", "u", "r", "e", " ", "t", "h", "e", " ", "s", "c", "e", "n", "e", " ", "i", "s", " ", "s", "a", "f", "e", " ", "b", "e", "f", "o", "r", "e", " ", "p", "r", "o", "v", "i", "d", "i", "n", "g", " ", "a", "s", "s", "i", "s", "t", "a", "n", "c", "e">>,
          <<"D", "o", " ", "n", "o", "t", " ", "m", "o", "v", "e", " ", "i", "n", "j", "u", "r", "e", "d", " ", "p", "e", "r", "s", "o", "n", "s", " ", "u", "n", "l", "e", "s", "s", " ", "t", "h", "e", "r", "e", " ", "i", "s", " ", "i", "m", "m", "e", "d", "i", "a", "t", "e", " ", "d", "a", "n", "g", "e", "r">>,
          <<"A", "p", "p", "l", "y", " ", "p", "r", "e", "s", "s", "u", "r", "e", " ", "t", "o", " ", "a", "n", "y", " ", "b", "l", "e", "e", "d", "i", "n", "g", " ", "w", "o", "u", "n", "d", "s", " ", "w", "i", "t", "h", " ", "c", "l", "e", "a", "n", " ", "c", "l", "o", "t", "h">>,
          <<"K", "e", "e", "p", " ", "i", "n", "j", "u", "r", "e", "d", " ", "p", "e", "r", "s", "o", "n", "s", " ", "c", "a", "l", "m", " ", "a", "n", "d", " ", "s", "t", "i", "l", "l">>>>,
      call_emergency_services |-> TRUE],
   fire |->
     [severity |-> "critical",
      assessment |-> <<"F", "i", "r", "e", " ", "i", "s", " ", "a", " ", "c", "r", "i", "t", "i", "c", "a", "l", " ", "e", "m", "e", "r", "g", "e", "n", "c", "y", " ", "r", "e", "q", "u", "i", "r", "i", "n", "g", " ", "i", "m", "m", "e", "d", "i", "a", "t", "e", " ", "e", "v", "a", "c", "u", "a", "t", "i", "o", "n", " ", "a", "n", "d", " ", "p", "r", "o", "f", "e", "s", "s", "i", "o", "n", "a", "l", " ", "r", "e", "s", "p", "o", "n", "s", "e", ".">>,
      recommendations |->
        <<<<"C", "a", "l", "l", " ", "9", "1", "1", " ", "i", "m", "m", "e", "d", "i", "a", "t", "e", "l", "y">>,
          <<"E", "v", "a", "c", "u", "a", "t", "e", " ", "t", "h", "e", " ", "b", "u", "i", "l", "d", "i", "n", "g", " ", "u", "s", "i", "n", "g", " ", "t", "h", "e", " ", "n", "e", "a", "r", "e", "s", "t", " ", "s", "a", "f", "e", " ", "e", "x", "i", "t">>,
          <<"D", "o", " ", "n", "o", "t", " ", "u", "s", "e", " ", "e", "l", "e", "v", "a", "t", "o", "r", "s">>,
          <<"S", "t", "a", "y", " ", "l", "o", "w", " ", "t", "o", " ", "a", "v", "o", "i", "d", " ", "s", "m", "o", "k", "e", " ", "i", "n", "h", "a", "l", "a", "t", "i", "o", "n">>,
          <<"D", "o", " ", "n", "o", "t", " ", "r", "e", "-", "e", "n", "t", "e", "r", " ", "t", "h", "e", " ", "b", "u", "i", "l", "d", "i", "n", "g", " ", "f", "o", "r", " ", "a", "n", "y", " ", "r", "e", "a", "s", "o", "n">>>>,
      call_emergency_services |-> TRUE],
   violence |->
     [severity |-> "critical",
      assessment |-> <<"V", "i", "o", "l", "e", "n", "c", "e", " ", "s", "i", "t", "u", "a", "t", "i", "o", "n", "s", " ", "r", "e", "q", "u", "i", "r", "e", " ", "i", "m", "m", "e", "d", "i", "a", "t", "e", " ", "l", "a", "w", " ", "e", "n", "f", "o", "r", "c", "e", "m", "e", "n", "t", " ", "r", "e", "s", "p", "o", "n", "s", "e", ".", " ", "Y", "o", "u", "r", " ", "s", "a", "f", "e", "t", "y", " ", "i", "s", " ", "t", "h", "e", " ", "p", "r", "i", "o", "r", "i", "t", "y", ".">>,
      recommendations |->
        <<<<"C", "a", "l", "l", " ", "9", "1", "1", " ", "i", "m", "m", "e", "d", "i", "a", "t", "e", "l", "y", " ", "i", "f", " ", "s", "a", "f", "e", " ", "t", "o", " ", "d", "o", " ", "s", "o">>,
          <<"R", "e", "m", "o", "v", "e", " ", "y", "o", "u", "r", "s", "e", "l", "f", " ", "f", "r", "o", "m", " ", "d", "a", "n", "g", "e", "r", " ", "i", "f", " ", "p", "o", "s", "s", "i", "b", "l", "e">>,
          <<"D", "o", " ", "n", "o", "t", " ", "c", "o", "n", "f", "r", "o", "n", "t", " ", "t", "h", "e", " ", "a", "g", "g", "r", "e", "s", "s", "o", "r">>,
          <<"S", "e", "e", "k", " ", "s", "h", "e", "l", "t", "e", "r", " ", "i", "n", " ", "a", " ", "s", "a", "f", "e", " ", "l", "o", "c", "a", "t", "i", "o", "n">>,
          <<"F", "o", "l", "l", "o", "w", " ", "l", "a", "w", " ", "e", "n", "f", "o", "r", "c", "e", "m", "e", "n", "t", " ", "i", "n", "s", "t", "r", "u", "c", "t", "i", "o", "n", "s", " ", "w", "h", "e", "n", " ", "t", "h", "e", "y", " ", "a", "r", "r", "i", "v", "e">>>>,
      call_emergency_services |-> TRUE],
   natural_disaster |->
     [severity |-> "critical",
      assessment |-> <<"N", "a", "t", "u", "r", "a", "l", " ", "d", "i", "s", "a", "s", "t", "e", "r", "s", " ", "r", "e", "q", "u", "i", "r", "e", " ", "i", "m", "m", "e", "d", "i", "a", "t", "e", " ", "s", "a", "f", "e", "t", "y", " ", "m", "e", "a", "s", "u", "r", "e", "s", " ", "a", "n", "d", " ", "e", "m", "e", "r", "g", "e", "n", "c", "y", " ", "r", "e", "s", "p", "o", "n", "s", "e", " ", "c", "o", "o", "r", "d", "i", "n", "a", "t", "i", "o", "n", ".">>,
      recommendations |->
        <<<<"F", "o", "l", "l", "o", "w", " ", "l", "o", "c", "a", "l", " ", "e", "m", "e", "r", "g", "e", "n", "c", "y", " ", "b", "r", "o", "a", "d", "c", "a", "s", "t", " ", "i", "n", "s", "t", "r", "u", "c", "t", "i", "o", "n", "s">>,
          <<"S", "e", "e", "k", " ", "a", "p", "p", "r", "o", "p", "r", "i", "a", "t", "e", " ", "s", "h", "e", "l", "t", "e", "r", " ", "i", "m", "m", "e", "d", "i", "a", "t", "e", "l", "y">>,
          <<"S", "t", "a", "y", " ", "a", "w", "a", "y", " ", "f", "r", "o", "m", " ", "w", "i", "n", "d", "o", "w", "s", ",", " ", "d", "o", "o", "r", "s", ",", " ", "a", "n", "d", " ", "e", "x", "t", "e", "r", "n", "a", "l", " ", "w", "a", "l", "l", "s">>,
          <<"H", "a", "v", "e", " ", "e", "m", "e", "r", "g", "e", "n", "c", "y", " ", "s", "u", "p", "p", "l", "i", "e", "s", " ", "r", "e", "a", "d", "y", " ", "(", "w", "a", "t", "e", "r", ",", " ", "f", "o", "o", "d", ",", " ", "f", "i", "r", "s", "t", " ", "a", "i", "d", ")">>,
          <<"D", "o", " ", "n", "o", "t", " ", "v", "e", "n", "t", "u", "r", "e", " ", "o", "u", "t", "s", "i", "d", "e", " ", "u", "n", "t", "i", "l", " ", "a", "u", "t", "h", "o", "r", "i", "t", "i", "e", "s", " ", "d", "e", "c", "l", "a", "r", "e", " ", "i", "t", " ", "s", "a", "f", "e">>>>,
      call_emergency_services |-> TRUE]]

\* get_fallback_assessment with the table not consulted: the default row
\* for every category
get_fallback_assessment_default(emergency_type) ==
  [severity |-> "high",
   assessment |-> <<"T", "h", "i", "s", " ", "i", "s", " ", "a", "n", " ", "e", "m", "e", "r", "g", "e", "n", "c", "y", ".">>,
   recommendations |->
     <<<<"C", "a", "l", "l", " ", "9", "1", "1">>,
       <<"S", "t", "a", "y", " ", "s", "a", "f", "e">>,
       <<"W", "a", "i", "t">>>>,
   call_emergency_services |-> TRUE]

get_fallback_assessment(emergency_type) ==
  IF emergency_type \in DOMAIN FALLBACK_ASSESSMENTS
  THEN FALLBACK_ASSESSMENTS[emergency_type]
  ELSE [severity |-> "high",
        assessment |-> <<"T", "h", "i", "s", " ", "i", "s", " ", "a", "n", " ", "e", "m", "e", "r", "g", "e", "n", "c", "y", " ", "s", "i", "t", "u", "a", "t", "i", "o", "n", " ", "r", "e", "q", "u", "i", "r", "i", "n", "g", " ", "p", "r", "o", "f", "e", "s", "s", "i", "o", "n", "a", "l", " ", "h", "e", "l", "p", ".">>,
        recommendations |->
          <<<<"C", "a", "l", "l", " ", "9", "1", "1", " ", "o", "r", " ", "l", "o", "c", "a", "l", " ", "e", "m", "e", "r", "g", "e", "n", "c", "y", " ", "s", "e", "r", "v", "i", "c", "e", "s">>,
            <<"S", "t", "a", "y", " ", "s", "a", "f", "e", " ", "a", "n", "d", " ", "c", "a", "l", "m">>,
            <<"W", "a", "i", "t", " ", "f", "o", "r", " ", "p", "r", "o", "f", "e", "s", "s", "i", "o", "n", "a", "l", " ", "a", "s", "s", "i", "s", "t", "a", "n", "c", "e">>>>,
        call_emergency_services |-> TRUE]

FALLBACK_FIRST_AID ==
  [medical |->
     <<[step_number |-> 1,
        instruction |-> <<"C", "a", "l", "l", " ", "9", "1", "1", " ", "o", "r", " ", "e", "m", "e", "r", "g", "e", "n", "c", "y", " ", "s", "e", "r", "v", "i", "c", "e", "s", " ", "i", "m", "m", "e", "d", "i", "a", "t", "e", "l", "y">>,
        warnings |-> <<<<"D", "o", " ", "n", "o", "t", " ", "d", "e", "l", "a", "y", " ", "e", "m", "e", "r", "g", "e", "n", "c", "y", " ", "c", "a", "l", "l">>>>,
        duration |-> <<<<"I", "m", "m", "e", "d", "i", "a", "t", "e", "l", "y">>>>],
       [step_number |-> 2,
        instruction |-> <<"K", "e", "e", "p", " ", "t", "h", "e", " ", "p", "e", "r", "s", "o", "n", " ", "c", "a", "l", "m", " ", "a", "n", "d", " ", "c", "o", "m", "f", "o", "r", "t", "a", "b", "l", "e">>,
        warnings |-> <<<<"D", "o", " ", "n", "o", "t", " ", "g", "i", "v", "e", " ", "f", "o", "o", "d", " ", "o", "r", " ", "d", "r", "i", "n", "k", "s", " ", "u", "n", "l", "e", "s", "s", " ", "i", "n", "s", "t", "r", "u", "c", "t", "e", "d">>>>,
        duration |-> <<<<"U", "n", "t", "i", "l", " ", "h", "e", "l", "p", " ", "a", "r", "r", "i", "v", "e", "s">>>>],
       [step_number |-> 3,
        instruction |-> <<"M", "o", "n", "i", "t", "o", "r", " ", "b", "r", "e", "a", "t", "h", "i", "n", "g", " ", "a", "n", "d", " ", "c", "o", "n", "s", "c", "i", "o", "u", "s", "n", "e", "s", "s">>,
        warnings |-> <<<<"B", "e", " ", "p", "r", "e", "p", "a", "r", "e", "d", " ", "t", "o", " ", "p", "e", "r", "f", "o", "r", "m", " ", "C", "P", "R", " ", "i", "f", " ", "t", "r", "a", "i", "n", "e", "d">>>>,
        duration |-> <<<<"C", "o", "n", "t", "i", "n", "u", "o", "u", "s", "l", "y">>>>],
       [step_number |-> 4,
        instruction |-> <<"G", "a", "t", "h", "e", "r", " ", "m", "e", "d", "i", "c", "a", "l", " ", "i", "n", "f", "o", "r", "m", "a", "t", "i", "o", "n", " ", "(", "m", "e", "d", "i", "c", "a", "t", "i", "o", "n", "s", ",", " ", "a", "l", "l", "e", "r", "g", "i", "e", "s", ",", " ", "c", "o", "n", "d", "i", "t", "i", "o", "n", "s", ")">>,
        warnings |-> <<<<"H", "a", "v", "e", " ", "t", "h", "i", "s", " ", "r", "e", "a", "d", "y", " ", "f", "o", "r", " ", "e", "m", "e", "r", "g", "e", "n", "c", "y", " ", "r", "e", "s", "p", "o", "n", "d", "e", "r", "s">>>>,
        duration |-> <<<<"W", "h", "i", "l", "e", " ", "w", "a", "i", "t", "i", "n", "g">>>>]>>,
   accident |->
     <<[step_number |-> 1,
        instruction |-> <<"E", "n", "s", "u", "r", "e", " ", "s", "c", "e", "n", "e", " ", "s", "a", "f", "e", "t", "y", " ", "b", "e", "f", "o", "r", "e", " ", "a", "p", "p", "r", "o", "a", "c", "h", "i", "n", "g">>,
        warnings |-> <<<<"D", "o", " ", "n", "o", "t", " ", "p", "u", "t", " ", "y", "o", "u", "r", "s", "e", "l", "f", " ", "i", "n", " ", "d", "a", "n", "g", "e", "r">>>>,
        duration |-> <<<<"F", "i", "r", "s", "t", " ", "p", "r", "i", "o", "r", "i", "t", "y">>>>],
       [step_number |-> 2,
        instruction |-> <<"C", "a", "l", "l", " ", "9", "1", "1", " ", "i", "m", "m", "e", "d", "i", "a", "t", "e", "l", "y">>,
        warnings |-> <<<<"P", "r", "o", "v", "i", "d", "e", " ", "c", "l", "e", "a", "r", " ", "l", "o", "c", "a", "t", "i", "o", "n", " ", "a", "n", "d", " ", "i", "n", "j", "u", "r", "y", " ", "d", "e", "s", "c", "r", "i", "p", "t", "i", "o", "n">>>>,
        duration |-> <<<<"I", "m", "m", "e", "d", "i", "a", "t", "e", "l", "y">>>>],
       [step_number |-> 3,
        instruction |-> <<"A", "p", "p", "l", "y", " ", "d", "i", "r", "e", "c", "t", " ", "p", "r", "e", "s", "s", "u", "r", "e", " ", "t", "o", " ", "a", "n", "y", " ", "b", "l", "e", "e", "d", "i", "n", "g", " ", "w", "o", "u", "n", "d", "s">>,
        warnings |-> <<<<"U", "s", "e", " ", "c", "l", "e", "a", "n", " ", "c", "l", "o", "t", "h", " ", "o", "r", " ", "g", "a", "u", "z", "e">>,
                      <<"D", "o", " ", "n", "o", "t", " ", "r", "e", "m", "o", "v", "e", " ", "o", "b", "j", "e", "c", "t", "s", " ", "e", "m", "b", "e", "d", "d", "e", "d", " ", "i", "n", " ", "w", "o", "u", "n", "d", "s">>>>,
        duration |-> <<<<"U", "n", "t", "i", "l", " ", "b", "l", "e", "e", "d", "i", "n", "g", " ", "s", "t", "o", "p", "s", " ", "o", "r", " ", "h", "e", "l", "p", " ", "a", "r", "r", "i", "v", "e", "s">>>>],
       [step_number |-> 4,
        instruction |-> <<"K", "e", "e", "p", " ", "i", "n", "j", "u", "r", "e", "d", " ", "p", "e", "r", "s", "o", "n", " ", "s", "t", "i", "l", "l">>,
        warnings |-> <<<<"D", "o", " ", "n", "o", "t", " ", "m", "o", "v", "e", " ", "u", "n", "l", "e", "s", "s", " ", "i", "m", "m", "e", "d", "i", "a", "t", "e", " ", "d", "a", "n", "g", "e", "r">>,
                      <<"S", "u", "s", "p", "e", "c", "t", " ", "s", "p", "i", "n", "a", "l", " ", "i", "n", "j", "u", "r", "y", " ", "i", "n", " ", "s", "e", "r", "i", "o", "u", "s", " ", "a", "c", "c", "i", "d", "e", "n", "t", "s">>>>,
        duration |-> <<<<"U", "n", "t", "i", "l", " ", "p", "r", "o", "f", "e", "s", "s", "i", "o", "n", "a", "l", " ", "h", "e", "l", "p", " ", "a", "r", "r", "i", "v", "e", "s">>>>]>>]

\* get_fallback_first_aid with no default given to the table's get
get_fallback_first_aid_no_default(emergency_type) ==
  IF emergency_type \in DOMAIN FALLBACK_FIRST_AID
  THEN FALLBACK_FIRST_AID[emergency_type]
  ELSE None

get_fallback_first_aid(emergency_type) ==
  IF emergency_type \in DOMAIN FALLBACK_FIRST_AID
  THEN FALLBACK_FIRST_AID[emergency_type]
  ELSE <<[step_number |-> 1,
          instruction |-> <<"C", "a", "l", "l", " ", "9", "1", "1", " ", "o", "r", " ", "e", "m", "e", "r", "g", "e", "n", "c", "y", " ", "s", "e", "r", "v", "i", "c", "e", "s", " ", "i", "m", "m", "e", "d", "i", "a", "t", "e", "l", "y">>,
          warnings |-> <<<<"D", "o", " ", "n", "o", "t", " ", "a", "t", "t", "e", "m", "p", "t", " ", "a", "d", "v", "a", "n", "c", "e", "d", " ", "p", "r", "o", "c", "e", "d", "u", "r", "e", "s", " ", "w", "i", "t", "h", "o", "u", "t", " ", "t", "r", "a", "i", "n", "i", "n", "g">>>>,
          duration |-> <<<<"I", "m", "m", "e", "d", "i", "a", "t", "e", "l", "y">>>>],
         [step_number |-> 2,
          instruction |-> <<"K", "e", "e", "p", " ", "y", "o", "u", "r", "s", "e", "l", "f", " ", "a", "n", "d", " ", "o", "t", "h", "e", "r", "s", " ", "s", "a", "f", "e">>,
          warnings |-> <<<<"A", "s", "s", "e", "s", "s", " ", "t", "h", "e", " ", "s", "i", "t", "u", "a", "t", "i", "o", "n", " ", "b", "e", "f", "o", "r", "e", " ", "a", "c", "t", "i", "n", "g">>>>,
          duration |-> <<<<"O", "n", "g", "o", "i", "n", "g">>>>],
         [step_number |-> 3,
          instruction |-> <<"P", "r", "o", "v", "i", "d", "e", " ", "c", "o", "m", "f", "o", "r", "t", " ", "a", "n", "d", " ", "r", "e", "a", "s", "s", "u", "r", "a", "n", "c", "e">>,
          warnings |-> <<<<"D", "o", " ", "n", "o", "t", " ", "m", "o", "v", "e", " ", "i", "n", "j", "u", "r", "e", "d", " ", "p", "e", "r", "s", "o", "n", "s", " ", "u", "n", "n", "e", "c", "e", "s", "s", "a", "r", "i", "l", "y">>>>,
          duration |-> <<<<"U", "n", "t", "i", "l", " ", "h", "e", "l", "p", " ", "a", "r", "r", "i", "v", "e", "s">>>>]>>

get_critical_warnings(emergency_type) ==
  LET common_warnings ==
        <<<<"A", "l", "w", "a", "y", "s", " ", "c", "a", "l", "l", " ", "9", "1", "1", " ", "f", "o", "r", " ", "s", "e", "r", "i", "o", "u", "s", " ", "e", "m", "e", "r", "g", "e", "n", "c", "i", "e", "s">>,
          <<"D", "o", " ", "n", "o", "t", " ", "p", "r", "o", "v", "i", "d", "e", " ", "c", "a", "r", "e", " ", "b", "e", "y", "o", "n", "d", " ", "y", "o", "u", "r", " ", "t", "r", "a", "i", "n", "i", "n", "g", " ", "l", "e", "v", "e", "l">>,
          <<"P", "r", "i", "o", "r", "i", "t", "i", "z", "e", " ", "s", "c", "e", "n", "e", " ", "s", "a", "f", "e", "t", "y", " ", "f", "o", "r", " ", "y", "o", "u", "r", "s", "e", "l", "f", " ", "a", "n", "d", " ", "o", "t", "h", "e", "r", "s">>>>
      type_specific_warnings ==
        [medical |->
           <<<<"D", "o", " ", "n", "o", "t", " ", "g", "i", "v", "e", " ", "m", "e", "d", "i", "c", "a", "t", "i", "o", "n", "s", " ", "u", "n", "l", "e", "s", "s", " ", "p", "r", "e", "s", "c", "r", "i", "b", "e", "d">>,
             <<"D", "o", " ", "n", "o", "t", " ", "g", "i", "v", "e", " ", "f", "o", "o", "d", " ", "o", "r", " ", "d", "r", "i", "n", "k", " ", "t", "o", " ", "u", "n", "c", "o", "n", "s", "c", "i", "o", "u", "s", " ", "p", "e", "r", "s", "o", "n", "s">>>>,
         fire |->
           <<<<"N", "e", "v", "e", "r", " ", "r", "e", "-", "e", "n", "t", "e", "r", " ", "a", " ", "b", "u", "r", "n", "i", "n", "g", " ", "b", "u", "i", "l", "d", "i", "n", "g">>,
             <<"C", "r", "a", "w", "l", " ", "l", "o", "w", " ", "u", "n", "d", "e", "r", " ", "s", "m", "o", "k", "e">>>>,
         violence |->
           <<<<"Y", "o", "u", "r", " ", "s", "a", "f", "e", "t", "y", " ", "i", "s", " ", "t", "h", "e", " ", "t", "o", "p", " ", "p", "r", "i", "o", "r", "i", "t", "y">>,
             <<"D", "o", " ", "n", "o", "t", " ", "c", "o", "n", "f", "r", "o", "n", "t", " ", "v", "i", "o", "l", "e", "n", "t", " ", "i", "n", "d", "i", "v", "i", "d", "u", "a", "l", "s">>>>]
  IN  common_warnings \o
      (IF emergency_type \in DOMAIN type_specific_warnings
       THEN type_specific_warnings[emergency_type] ELSE <<>>)

(***************************************************************************)
(* llm_routes.py: the parsers of the provider's text.                      *)
(***************************************************************************)
\* seq[:n] of Python
FirstN(seq, n) == SubSeq(seq, 1, IF Len(seq) < n THEN Len(seq) ELSE n)

AssessmentChars == 500

MaxRecommendations == 5

MaxSteps == 10

MaxCriticalWarnings == 5

\* the recommendation a line yields: the line without its bullet or number,
\* or nothing
RecommendationOf(raw) ==
  LET line == strip(raw)
      clean == strip(lstrip(line, {"-", Bullet, ".", " "} \cup Digits))
  IN  IF /\ line # <<>>
         /\ (line[1] = "-" \/ line[1] = Bullet \/ line[1] \in Digits)
         /\ clean # <<>>
      THEN <<clean>> ELSE <<>>

RECURSIVE Recommendations(_, _)
Recommendations(lines, n) ==
  IF n > Len(lines) THEN <<>>
  ELSE RecommendationOf(lines[n]) \o Recommendations(lines, n + 1)

\* _parse_assessment_response looking for the keywords in the order low,
\* medium, critical
_parse_assessment_response_low_first(llm_response, context) ==
  LET up == upper(llm_response)
      severity ==
        IF Contains(up, <<"L", "O", "W">>) THEN "low"
        ELSE IF Contains(up, <<"M", "E", "D", "I", "U", "M">>) THEN "medium"
        ELSE IF Contains(up, <<"C", "R", "I", "T", "I", "C", "A", "L">>) THEN "critical"
        ELSE "high"
      call_emergency ==
        Contains(up, <<"Y", "E", "S">>) \/ Contains(llm_response, <<"9", "1", "1">>)
      found == Recommendations(split(llm_response, "\n"), 1)
      recommendations ==
        IF found = <<>>
        THEN <<<<"C", "a", "l", "l", " ", "e", "m", "e", "r", "g", "e", "n", "c", "y", " ", "s", "e", "r", "v", "i", "c", "e", "s", " ", "i", "f", " ", "t", "h", "e", " ", "s", "i", "t", "u", "a", "t", "i", "o", "n", " ", "w", "o", "r", "s", "e", "n", "s">>,
               <<"M", "o", "n", "i", "t", "o", "r", " ", "t", "h", "e", " ", "p", "e", "r", "s", "o", "n", "'", "s", " ", "c", "o", "n", "d", "i", "t", "i", "o", "n", " ", "c", "l", "o", "s", "e", "l", "y">>,
               <<"K", "e", "e", "p", " ", "t", "h", "e", " ", "p", "e", "r", "s", "o", "n", " ", "c", "a", "l", "m", " ", "a", "n", "d", " ", "c", "o", "m", "f", "o", "r", "t", "a", "b", "l", "e">>>>
        ELSE found
  IN  [success |-> TRUE,
       emergency_id |-> context.emergency_id,
       severity |-> severity,
       assessment |-> FirstN(llm_response, AssessmentChars),
       recommendations |-> FirstN(recommendations, MaxRecommendations),
       call_emergency_services |-> call_emergency]

_parse_assessment_response(llm_response, context) ==
  LET up == upper(llm_response)
      severity ==
        IF Contains(up, <<"C", "R", "I", "T", "I", "C", "A", "L">>) THEN "critical"
        ELSE IF Contains(up, <<"M", "E", "D", "I", "U", "M">>) THEN "medium"
        ELSE IF Contains(up, <<"L", "O", "W">>) THEN "low"
        ELSE "high"
      call_emergency ==
        Contains(up, <<"Y", "E", "S">>) \/ Contains(llm_response, <<"9", "1", "1">>)
      found == Recommendations(split(llm_response, "\n"), 1)
      recommendations ==
        IF found = <<>>
        THEN <<<<"C", "a", "l", "l", " ", "e", "m", "e", "r", "g", "e", "n", "c", "y", " ", "s", "e", "r", "v", "i", "c", "e", "s", " ", "i", "f", " ", "t", "h", "e", " ", "s", "i", "t", "u", "a", "t", "i", "o", "n", " ", "w", "o", "r", "s", "e", "n", "s">>,
               <<"M", "o", "n", "i", "t", "o", "r", " ", "t", "h", "e", " ", "p", "e", "r", "s", "o", "n", "'", "s", " ", "c", "o", "n", "d", "i", "t", "i", "o", "n", " ", "c", "l", "o", "s", "e", "l", "y">>,
               <<"K", "e", "e", "p", " ", "t", "h", "e", " ", "p", "e", "r", "s", "o", "n", " ", "c", "a", "l", "m", " ", "a", "n", "d", " ", "c", "o", "m", "f", "o", "r", "t", "a", "b", "l", "e">>>>
        ELSE found
  IN  [success |-> TRUE,
       emergency_id |-> context.emergency_id,
       severity |-> severity,
       assessment |-> FirstN(llm_response, AssessmentChars),
       recommendations |-> FirstN(recommendations, MaxRecommendations),
       call_emergency_services |-> call_emergency]

\* FirstAidStep(step_number=..., instruction=...): the other fields default
FirstAidStep(step_number, instruction) ==
  [step_number |-> step_number, instruction |-> instruction,
   warnings |-> <<>>, duration |-> None]

\* the text a warning or duration line contributes
AfterColonOrLine(line) ==
  IF Contains(line, <<":">>) THEN strip(afterFirstColon(line)) ELSE line

\* ScanLine taking the number of a new step before the open step is appended
ScanLine_number_before_append(st, raw) ==
  LET line == strip(raw)
      low  == lower(line)
  IN  IF Contains(low, <<"s", "t", "e", "p">>) /\ Contains(line, <<":">>)
      THEN [st EXCEPT
              !.steps = @ \o st.current_step,
              !.current_step =
                 Some(FirstAidStep(Len(st.steps) + 1,
                                   strip(afterFirstColon(line))))]
      ELSE IF Contains(low, <<"w", "a", "r", "n", "i", "n", "g">>) /\ st.current_step # None
      THEN [st EXCEPT !.current_step[1].warnings = @ \o <<AfterColonOrLine(line)>>]
      ELSE IF Contains(low, <<"d", "u", "r", "a", "t", "i", "o", "n">>) /\ st.current_step # None
      THEN [st EXCEPT !.current_step[1].duration = Some(AfterColonOrLine(line))]
      ELSE IF Contains(low, <<"c", "r", "i", "t", "i", "c", "a", "l", " ", "w", "a", "r", "n", "i", "n", "g">>)
      THEN [st EXCEPT !.warnings = @ \o <<line>>]
      ELSE st

\* ScanLine appending the warning of a step to the list of critical warnings
ScanLine_warning_to_list(st, raw) ==
  LET line == strip(raw)
      low  == lower(line)
  IN  IF Contains(low, <<"s", "t", "e", "p">>) /\ Contains(line, <<":">>)
      THEN [st EXCEPT
              !.steps = @ \o st.current_step,
              !.current_step =
                 Some(FirstAidStep(Len(st.steps \o st.current_step) + 1,
                                   strip(afterFirstColon(line))))]
      ELSE IF Contains(low, <<"w", "a", "r", "n", "i", "n", "g">>) /\ st.current_step # None
      THEN [st EXCEPT !.warnings = @ \o <<AfterColonOrLine(line)>>]
      ELSE IF Contains(low, <<"d", "u", "r", "a", "t", "i", "o", "n">>) /\ st.current_step # None
      THEN [st EXCEPT !.current_step[1].duration = Some(AfterColonOrLine(line))]
      ELSE IF Contains(low, <<"c", "r", "i", "t", "i", "c", "a", "l", " ", "w", "a", "r", "n", "i", "n", "g">>)
      THEN [st EXCEPT !.warnings = @ \o <<line>>]
      ELSE st

\* ScanLine with the test for a warning of the open step made first
ScanLine_warning_first(st, raw) ==
  LET line == strip(raw)
      low  == lower(line)
  IN  IF Contains(low, <<"w", "a", "r", "n", "i", "n", "g">>) /\ st.current_step # None
      THEN [st EXCEPT !.current_step[1].warnings = @ \o <<AfterColonOrLine(line)>>]
      ELSE IF Contains(low, <<"s", "t", "e", "p">>) /\ Contains(line, <<":">>)
      THEN [st EXCEPT
              !.steps = @ \o st.current_step,
              !.current_step =
                 Some(FirstAidStep(Len(st.steps \o st.current_step) + 1,
                                   strip(afterFirstColon(line))))]
      ELSE IF Contains(low, <<"d", "u", "r", "a", "t", "i", "o", "n">>) /\ st.current_step # None
      THEN [st EXCEPT !.current_step[1].duration = Some(AfterColonOrLine(line))]
      ELSE IF Contains(low, <<"c", "r", "i", "t", "i", "c", "a", "l", " ", "w", "a", "r", "n", "i", "n", "g">>)
      THEN [st EXCEPT !.warnings = @ \o <<line>>]
      ELSE st

\* one turn of the loop over the lines; st holds steps, warnings and
\* current_step (an Optional)
ScanLine(st, raw) ==
  LET line == strip(raw)
      low  == lower(line)
  IN  IF Contains(low, <<"s", "t", "e", "p">>) /\ Contains(line, <<":">>)
      THEN [st EXCEPT
              !.steps = @ \o st.current_step,
              !.current_step =
                 Some(FirstAidStep(Len(st.steps \o st.current_step) + 1,
                                   strip(afterFirstColon(line))))]
      ELSE IF Contains(low, <<"w", "a", "r", "n", "i", "n", "g">>) /\ st.current_step # None
      THEN [st EXCEPT !.current_step[1].warnings = @ \o <<AfterColonOrLine(line)>>]
      ELSE IF Contains(low, <<"d", "u", "r", "a", "t", "i", "o", "n">>) /\ st.current_step # None
      THEN [st EXCEPT !.current_step[1].duration = Some(AfterColonOrLine(line))]
      ELSE IF Contains(low, <<"c", "r", "i", "t", "i", "c", "a", "l", " ", "w", "a", "r", "n", "i", "n", "g">>)
      THEN [st EXCEPT !.warnings = @ \o <<line>>]
      ELSE st

RECURSIVE ScanLines(_, _, _)
ScanLines(st, lines, n) ==
  IF n > Len(lines) THEN st ELSE ScanLines(ScanLine(st, lines[n]), lines, n + 1)

\* _parse_first_aid_response without the steps of the knowledge base for a
\* text that yields no step
_parse_first_aid_response_no_default(llm_response, context) ==
  LET scanned == ScanLines([steps |-> <<>>, warnings |-> <<>>, current_step |-> None],
                           split(llm_response, "\n"), 1)
      parsed  == scanned.steps \o scanned.current_step
      steps   == parsed
  IN  [success |-> TRUE,
       emergency_id |-> context.emergency_id,
       emergency_type |-> context.emergency_type,
       steps |-> FirstN(steps, MaxSteps),
       critical_warnings |->
         IF scanned.warnings # <<>>
         THEN FirstN(scanned.warnings, MaxCriticalWarnings)
         ELSE <<<<"A", "l", "w", "a", "y", "s", " ", "p", "r", "i", "o", "r", "i", "t", "i", "z", "e", " ", "s", "a", "f", "e", "t", "y">>>>,
       when_to_stop |->
         "Stop immediately if the person's condition worsens or you feel unsafe."]

_parse_first_aid_response(llm_response, context) ==
  LET scanned == ScanLines([steps |-> <<>>, warnings |-> <<>>, current_step |-> None],
                           split(llm_response, "\n"), 1)
      parsed  == scanned.steps \o scanned.current_step
      steps   == IF parsed = <<>>
                 THEN get_fallback_first_aid(context.emergency_type)
                 ELSE parsed
  IN  [success |-> TRUE,
       emergency_id |-> context.emergency_id,
       emergency_type |-> context.emergency_type,
       steps |-> FirstN(steps, MaxSteps),
       critical_warnings |->
         IF scanned.warnings # <<>>
         THEN FirstN(scanned.warnings, MaxCriticalWarnings)
         ELSE <<<<"A", "l", "w", "a", "y", "s", " ", "p", "r", "i", "o", "r", "i", "t", "i", "z", "e", " ", "s", "a", "f", "e", "t", "y">>>>,
       when_to_stop |->
         "Stop immediately if the person's condition worsens or you feel unsafe."]

(***************************************************************************)
(* emergency_context.py: the response models.  A constructor raises when a *)
(* required field is missing; the defaulted fields are filled in.          *)
(***************************************************************************)
AssessmentRequired ==
  {"success", "emergency_id", "severity", "assessment", "call_emergency_services"}

FirstAidRequired ==
  {"success", "emergency_id", "emergency_type", "steps", "when_to_stop"}

\* EmergencyAssessmentResponse(**fields): <<>> when the constructor raises
EmergencyAssessmentResponse(fields) ==
  IF AssessmentRequired \subseteq DOMAIN fields
  THEN Some([success |-> fields.success,
             emergency_id |-> fields.emergency_id,
             severity |-> fields.severity,
             assessment |-> fields.assessment,
             recommendations |->
               IF "recommendations" \in DOMAIN fields
               THEN fields.recommendations ELSE <<>>,
             call_emergency_services |-> fields.call_emergency_services,
             disclaimer |-> "This is an AI-generated assessment ..."])
  ELSE None

\* FirstAidResponse(**fields): <<>> when the constructor raises
FirstAidResponse(fields) ==
  IF FirstAidRequired \subseteq DOMAIN fields
  THEN Some([success |-> fields.success,
             emergency_id |-> fields.emergency_id,
             emergency_type |-> fields.emergency_type,
             steps |-> fields.steps,
             critical_warnings |->
               IF "critical_warnings" \in DOMAIN fields
               THEN fields.critical_warnings ELSE <<>>,
             when_to_stop |-> fields.when_to_stop,
             disclaimer |-> "This first aid guidance is AI-generated ..."])
  ELSE None

\* int(v) of Python for a text v without a sign: decimal digits, blanks
\* around them allowed, single underscores between digits; <<>> when int
\* raises ValueError
int(v) ==
  LET s == strip(v)
      RECURSIVE value(_)
      value(n) ==
        IF n = 0 THEN 0
        ELSE IF s[n] = "_" THEN value(n - 1)
        ELSE 10 * value(n - 1)
             + (CHOOSE d \in 0..9 :
                  <<"0", "1", "2", "3", "4", "5", "6", "7", "8", "9">>[d + 1] = s[n])
  IN  IF /\ s # <<>>
         /\ \A i \in DOMAIN s : s[i] \in Digits \cup {"_"}
         /\ s[1] # "_" /\ s[Len(s)] # "_"
         /\ \A i \in 1..(Len(s) - 1) : ~(s[i] = "_" /\ s[i + 1] = "_")
      THEN Some(value(Len(s)))
      ELSE None

\* MedicalProfile.validate_age_range taking the exact age for one bucket
\* further up at each threshold (<= in place of <)
validate_age_range_inclusive(v) ==
  IF v # None /\ v[1] # <<>> /\ ~Contains(v[1], <<"-">>) /\ ~Contains(v[1], <<"+">>)
  THEN IF int(v[1]) = None THEN v
       ELSE LET age == int(v[1])[1]
            IN  IF age <= 18 THEN Some(<<"0", "-", "1", "8">>)
                ELSE IF age <= 30 THEN Some(<<"1", "8", "-", "3", "0">>)
                ELSE IF age <= 50 THEN Some(<<"3", "0", "-", "5", "0">>)
                ELSE IF age <= 70 THEN Some(<<"5", "0", "-", "7", "0">>)
                ELSE Some(<<"7", "0", "+">>)
  ELSE v

\* MedicalProfile.validate_age_range(v): the value the profile stores for
\* the age_range v it is built with (an Optional text)
validate_age_range(v) ==
  IF v # None /\ v[1] # <<>> /\ ~Contains(v[1], <<"-">>) /\ ~Contains(v[1], <<"+">>)
  THEN IF int(v[1]) = None THEN v
       ELSE LET age == int(v[1])[1]
            IN  IF age < 18 THEN Some(<<"0", "-", "1", "8">>)
                ELSE IF age < 30 THEN Some(<<"1", "8", "-", "3", "0">>)
                ELSE IF age < 50 THEN Some(<<"3", "0", "-", "5", "0">>)
                ELSE IF age < 70 THEN Some(<<"5", "0", "-", "7", "0">>)
                ELSE Some(<<"7", "0", "+">>)
  ELSE v

(***************************************************************************)
(* anonymizer.py: anonymize_emergency_context.                             *)
(***************************************************************************)
\* anonymize_emergency_context with the coordinates cleared only under the
\* test of the address
anonymize_emergency_context_nested(context) ==
  [context EXCEPT
     !.description = anonymize_text(@),
     !.additional_info =
        IF @ # None /\ @[1] # <<>> THEN Some(anonymize_text(@[1])) ELSE @,
     !.location =
        IF @ = None THEN @
        ELSE IF @[1].address # None /\ @[1].address[1] # <<>>
        THEN Some([@[1] EXCEPT
                     !.address = Some(<<"[", "A", "D", "D", "R", "E", "S", "S", "]">>),
                     !.latitude = None,
                     !.longitude = None])
        ELSE @]

anonymize_emergency_context(context) ==
  [context EXCEPT
     !.description = anonymize_text(@),
     !.additional_info =
        IF @ # None /\ @[1] # <<>> THEN Some(anonymize_text(@[1])) ELSE @,
     !.location =
        IF @ = None THEN @
        ELSE Some([@[1] EXCEPT
                     !.address = IF @ # None /\ @[1] # <<>>
                                 THEN Some(<<"[", "A", "D", "D", "R", "E", "S", "S", "]">>) ELSE @,
                     !.latitude = None,
                     !.longitude = None])]

(***************************************************************************)
(* redis_cache.py: RedisCache.                                             *)
(***************************************************************************)
CacheKeyDescriptionChars == 100

\* json.dumps / json.loads of a value made of strings, booleans, lists and
\* dictionaries: the serialized text is kept as the value under a tag (a
\* value json.dumps raises on: JsonSerializable)
json_dumps(value) == <<"json", value>>

\* values another writer may have left under a key
ForeignRaw == {"not json", "{\"x\": 1}"}

\* json.loads: [raises, value]
json_loads(raw) ==
  IF raw = "not json" THEN [raises |-> TRUE, value |-> None]
  ELSE IF raw = "{\"x\": 1}" THEN [raises |-> FALSE, value |-> Some([x |-> 1])]
  ELSE [raises |-> FALSE, value |-> Some(raw[2])]

\* the names of the keyword arguments the callers pass, in string order
KeywordOrder == <<"desc", "type">>

\* sorted(kwargs.items()) with the items left in the order of the call
UnsortedItems(kwargs) == kwargs

\* sorted(kwargs.items()): kwargs is the sequence of <<name, value>> pairs in
\* the order the call gives them; the result has them in the order of their
\* names
SortedItems(kwargs) ==
  LET names == {kwargs[i][1] : i \in DOMAIN kwargs}
      ordered == SelectSeq(KeywordOrder, LAMBDA n : n \in names)
  IN  [i \in DOMAIN ordered |->
         kwargs[CHOOSE k \in DOMAIN kwargs : kwargs[k][1] = ordered[i]]]

\* the digest is taken to be free of collisions: it is the serialized text
_generate_cache_key(prefix, kwargs) ==
  <<"llm", prefix, json_dumps(SortedItems(kwargs))>>

AssessmentKey(emergency_type, description) ==
  _generate_cache_key("assessment",
    <<<<"type", emergency_type>>,
      <<"desc", FirstN(description, CacheKeyDescriptionChars)>>>>)

FirstAidKey(emergency_type, description) ==
  _generate_cache_key("first_aid",
    <<<<"type", emergency_type>>,
      <<"desc", FirstN(description, CacheKeyDescriptionChars)>>>>)

\* RedisCache.get with the test of the value inverted: a value is a miss
RedisCache_get_inverted(enabled, reply) ==
  IF ~enabled THEN None
  ELSE IF reply.raises THEN None
  ELSE IF reply.value # None THEN None
  ELSE Some(<<>>)

\* RedisCache.get: reply is what client.get(key) did, [raises, value] with
\* value an Optional raw text.  The result is an Optional Python value.
RedisCache_get(enabled, reply) ==
  IF ~enabled THEN None
  ELSE IF reply.raises THEN None
  ELSE IF reply.value = None THEN None
  ELSE LET loaded == json_loads(reply.value[1])
       IN  IF loaded.raises THEN None ELSE loaded.value

\* whether json.dumps(value) returns: it raises TypeError on an object of a
\* model class, and the steps of a first-aid result are FirstAidStep objects
JsonSerializable(value) ==
  ~("steps" \in DOMAIN value /\ value.steps # <<>>)

\* RedisCache.set with every value taken for serializable
RedisCache_set_any_value(enabled, value, setex_raises) ==
  IF ~enabled THEN [written |-> FALSE, result |-> FALSE]
  ELSE IF setex_raises THEN [written |-> FALSE, result |-> FALSE]
  ELSE [written |-> TRUE, result |-> TRUE]

\* RedisCache.set: whether client.setex has written, and the flag returned;
\* an exception of json.dumps or of client.setex is caught
RedisCache_set(enabled, value, setex_raises) ==
  IF ~enabled THEN [written |-> FALSE, result |-> FALSE]
  ELSE IF ~JsonSerializable(value) THEN [written |-> FALSE, result |-> FALSE]
  ELSE IF setex_raises THEN [written |-> FALSE, result |-> FALSE]
  ELSE [written |-> TRUE, result |-> TRUE]

(***************************************************************************)
(* llm_orchestrator.py: LLMOrchestrator.                                   *)
(***************************************************************************)
\* __init__: a provider is configured when its API key is set (and its
\* client could be constructed, which the two flags of settings stand for)
LLMOrchestrator(cfg) ==
  [primary_llm |-> cfg.OPENAI_API_KEY, fallback_llm |-> cfg.ANTHROPIC_API_KEY]

\* a provider's ainvoke: [raises, content]
ProviderReplies(texts) ==
  {[raises |-> TRUE, content |-> <<>>]} \cup
  {[raises |-> FALSE, content |-> x] : x \in texts}

\* one ainvoke as the call log keeps it
Call(provider, reply) ==
  [provider |-> provider, raises |-> reply.raises, content |-> reply.content]

\* generate_response with the primary provider invoked again after it raised
generate_response_retry(self, use_fallback, primary_reply, fallback_reply) ==
  LET try_primary == ~use_fallback /\ self.primary_llm
      after_primary ==
        IF try_primary
        THEN <<Call("primary", primary_reply), Call("primary", primary_reply)>>
        ELSE <<>>
  IN  IF try_primary /\ ~primary_reply.raises
      THEN [calls |-> <<Call("primary", primary_reply)>>, raises |-> FALSE,
            content |-> primary_reply.content, message |-> ""]
      ELSE IF self.fallback_llm
      THEN [calls |-> after_primary \o <<Call("fallback", fallback_reply)>>,
            raises |-> fallback_reply.raises,
            content |-> fallback_reply.content,
            message |-> IF fallback_reply.raises
                        THEN "All LLM providers failed" ELSE ""]
      ELSE [calls |-> after_primary, raises |-> TRUE,
            content |-> <<>>, message |-> "No LLM providers available"]

\* generate_response with the secondary provider asked first
generate_response_swapped(self, use_fallback, primary_reply, fallback_reply) ==
  LET try_primary == ~use_fallback /\ self.primary_llm
      after_fallback ==
        IF self.fallback_llm THEN <<Call("fallback", fallback_reply)>> ELSE <<>>
  IN  IF self.fallback_llm /\ ~fallback_reply.raises
      THEN [calls |-> <<Call("fallback", fallback_reply)>>, raises |-> FALSE,
            content |-> fallback_reply.content, message |-> ""]
      ELSE IF try_primary
      THEN [calls |-> after_fallback \o <<Call("primary", primary_reply)>>,
            raises |-> primary_reply.raises,
            content |-> primary_reply.content,
            message |-> IF primary_reply.raises
                        THEN "All LLM providers failed" ELSE ""]
      ELSE [calls |-> after_fallback, raises |-> TRUE,
            content |-> <<>>, message |-> "No LLM providers available"]

\* generate_response: the log of the providers invoked, in order, and how the
\* call ends ([raises, content, message])
generate_response(self, use_fallback, primary_reply, fallback_reply) ==
  LET try_primary == ~use_fallback /\ self.primary_llm
      after_primary ==
        IF try_primary THEN <<Call("primary", primary_reply)>> ELSE <<>>
  IN  IF try_primary /\ ~primary_reply.raises
      THEN [calls |-> after_primary, raises |-> FALSE,
            content |-> primary_reply.content, message |-> ""]
      ELSE IF self.fallback_llm
      THEN IF ~fallback_reply.raises
           THEN [calls |-> after_primary \o <<Call("fallback", fallback_reply)>>,
                 raises |-> FALSE,
                 content |-> fallback_reply.content, message |-> ""]
           ELSE [calls |-> after_primary \o <<Call("fallback", fallback_reply)>>,
                 raises |-> TRUE,
                 content |-> <<>>, message |-> "All LLM providers failed"]
      ELSE [calls |-> after_primary, raises |-> TRUE,
            content |-> <<>>, message |-> "No LLM providers available"]

(***************************************************************************)
(* llm_routes.py: the exception handlers of the two endpoints.             *)
(***************************************************************************)
HTTPException(status_code) == [type |-> "HTTPException", status_code |-> status_code]

Exception(message) == [type |-> "Exception", message |-> message]

\* OuterHandler without its "except HTTPException: raise" clause
OuterHandlerConverts(e) == HTTPException(500)

\* the outer handlers: an HTTPException is re-raised, anything else is
\* reported as an internal error
OuterHandler(e) ==
  IF e.type = "HTTPException" THEN e ELSE HTTPException(500)

FallbackAssessment(request, anonymized_context) ==
  EmergencyAssessmentResponse(
    [success |-> TRUE, emergency_id |-> request.emergency_context.emergency_id]
    @@ get_fallback_assessment(anonymized_context.emergency_type))

FallbackFirstAid(request, anonymized_context) ==
  FirstAidResponse(
    [success |-> TRUE,
     emergency_id |-> request.emergency_context.emergency_id,
     emergency_type |-> anonymized_context.emergency_type,
     steps |-> get_fallback_first_aid(anonymized_context.emergency_type),
     critical_warnings |-> get_critical_warnings(anonymized_context.emergency_type),
     when_to_stop |-> "Stop and seek immediate professional help ..."])

\* InnerHandler with the fallback switch ignored: the failure always goes out
InnerHandlerRaises(ENABLE_FALLBACK_RESPONSES, kind, request, anonymized_context) ==
  [response |-> None, raised |-> Some(HTTPException(503))]

\* the inner handlers (except Exception as e): what the endpoint returns or
\* raises once the LLM path has failed
InnerHandler(ENABLE_FALLBACK_RESPONSES, kind, request, anonymized_context) ==
  IF ENABLE_FALLBACK_RESPONSES
  THEN [response |-> IF kind = "assessment"
                     THEN FallbackAssessment(request, anonymized_context)
                     ELSE FallbackFirstAid(request, anonymized_context),
        raised |-> None]
  ELSE [response |-> None, raised |-> Some(HTTPException(503))]

\* ValidateNext with the outcome of the validation not looked at
ValidateNextUnchecked(validation_result) == "sanitize"

\* ValidateNext with a warning treated as a failure
ValidateNextWarningFails(validation_result) ==
  IF ~validation_result.is_valid \/ validation_result.warnings # <<>>
  THEN "fallback" ELSE "sanitize"

\* the stage after validation
ValidateNext(validation_result) ==
  IF ~validation_result.is_valid THEN "fallback" ELSE "sanitize"

\* the cached value is returned when it is truthy
Truthy(cached_response) ==
  cached_response # None /\ DOMAIN cached_response[1] # {}

ResponseOf(kind, fields) ==
  IF kind = "assessment" THEN EmergencyAssessmentResponse(fields)
  ELSE FirstAidResponse(fields)

ParseOf(kind, llm_response, context) ==
  IF kind = "assessment" THEN _parse_assessment_response(llm_response, context)
  ELSE _parse_first_aid_response(llm_response, context)

KeyOf(kind, context) ==
  IF kind = "assessment"
  THEN AssessmentKey(context.emergency_type, context.description)
  ELSE FirstAidKey(context.emergency_type, context.description)

\* the key of cache.get_assessment_cache / get_first_aid_cache as the
\* endpoint calls it
LookupKey(kind, anonymized_context) == KeyOf(kind, anonymized_context)

\* the key of cache.set_assessment_cache / set_first_aid_cache as the
\* endpoint calls it
StoreKey(kind, anonymized_context) == KeyOf(kind, anonymized_context)

(***************************************************************************)
(* prompts: the user prompt of each endpoint.  A prompt is kept as the list *)
(* prompt_parts that the code joins with blank lines; a part is its fixed  *)
(* label and the texts formatted into it, in order.                        *)
(***************************************************************************)
\* emergency_type.value.upper()
EmergencyTypeUpper ==
  [medical |-> "MEDICAL", accident |-> "ACCIDENT", fire |-> "FIRE",
   violence |-> "VIOLENCE", natural_disaster |-> "NATURAL_DISASTER",
   other |-> "OTHER"]

PromptPart(label, texts) == [label |-> label, texts |-> texts]

\* an Optional text that is present and not empty
Present(opt) == opt # None /\ opt[1] # <<>>

\* the parts that are appended only under a condition
PartIf(cond, part) == IF cond THEN <<part>> ELSE <<>>

create_assessment_prompt(context) ==
  LET location_parts ==
        IF context.location = None THEN <<>>
        ELSE PartIf(Present(context.location[1].city),
                    PromptPart("City: ", <<context.location[1].city[1]>>))
             \o PartIf(Present(context.location[1].country),
                       PromptPart("Country: ", <<context.location[1].country[1]>>))
      medical_parts ==
        IF context.medical_profile = None THEN <<>>
        ELSE PartIf(Present(context.medical_profile[1].age_range),
                    PromptPart("Age: ", <<context.medical_profile[1].age_range[1]>>))
             \o PartIf(Present(context.medical_profile[1].blood_type),
                       PromptPart("Blood Type: ", <<context.medical_profile[1].blood_type[1]>>))
             \o PartIf(context.medical_profile[1].allergies # <<>>,
                       PromptPart("Allergies: ", context.medical_profile[1].allergies))
             \o PartIf(context.medical_profile[1].medical_conditions # <<>>,
                       PromptPart("Conditions: ", context.medical_profile[1].medical_conditions))
  IN  <<PromptPart("**Emergency Type:** ", <<EmergencyTypeUpper[context.emergency_type]>>),
        PromptPart("**Description:** ", <<context.description>>)>>
      \o PartIf(location_parts # <<>>, PromptPart("**Location:** ", location_parts))
      \o PartIf(medical_parts # <<>>, PromptPart("**Medical Profile:** ", medical_parts))
      \o PartIf(Present(context.additional_info),
                PromptPart("**Additional Information:** ", <<context.additional_info[1]>>))
      \o <<PromptPart("Provide your emergency assessment ...", <<>>)>>

create_first_aid_prompt(context, specific_concern) ==
  LET considerations ==
        IF context.medical_profile = None THEN <<>>
        ELSE PartIf(Present(context.medical_profile[1].age_range),
                    PromptPart("Patient age range: ", <<context.medical_profile[1].age_range[1]>>))
             \o PartIf(context.medical_profile[1].allergies # <<>>,
                       PromptPart("Known allergies: ", context.medical_profile[1].allergies))
             \o PartIf(context.medical_profile[1].medical_conditions # <<>>,
                       PromptPart("Medical conditions: ", context.medical_profile[1].medical_conditions))
             \o PartIf(context.medical_profile[1].medications # <<>>,
                       PromptPart("Current medications: ", context.medical_profile[1].medications))
  IN  <<PromptPart("**Emergency Type:** ", <<EmergencyTypeUpper[context.emergency_type]>>),
        PromptPart("**Situation:** ", <<context.description>>)>>
      \o PartIf(Present(specific_concern),
                PromptPart("**Specific Concern:** ", <<specific_concern[1]>>))
      \o PartIf(considerations # <<>>,
                PromptPart("**Medical Considerations:** ", considerations))
      \o PartIf(context.location # None /\ Present(context.location[1].city),
                PromptPart("**Location:** ", <<context.location[1].city[1]>>))
      \o PartIf(Present(context.additional_info),
                PromptPart("**Additional Context:** ", <<context.additional_info[1]>>))
      \o <<PromptPart("Provide step-by-step first aid instructions ...", <<>>)>>

\* the user prompt an endpoint creates
PromptOf(kind, context, request) ==
  IF kind = "assessment" THEN create_assessment_prompt(context)
  ELSE create_first_aid_prompt(context, request.specific_concern)

(***************************************************************************)
(* The service as a state machine: the settings, the shared Redis cache    *)
(* and the requests in flight.                                             *)
(***************************************************************************)
\* call: a function of the service invoked on its own, its arguments and,
\* once it has returned, its result
VARIABLES settings, cache, req, arrived, call

vars == <<settings, cache, req, arrived, call>>

\* how many requests are in flight at once, and how many arrive in all
MaxInFlight == 1

MaxRequests == 2

\* the n-th request that arrives is about the n-th emergency
EmergencyIds ==
  <<"emergency-1", "emergency-2", "emergency-3", "emergency-4", "emergency-5">>

RequestTypes == {"medical", "other"}

Descriptions ==
  {<<"c", "h", "e", "s", "t", " ", "p", "a", "i", "n", " ", "s", "i", "n", "c", "e", " ", "n", "o", "o", "n">>,
   <<"c", "a", "l", "l", " ", "5", "5", "5", "-", "1", "2", "3", "-", "4", "5", "6", "7", " ", "n", "o", "w">>}

\* what a provider may answer: a usable text and a harmful one
TextValid == <<"S", "t", "e", "p", " ", "1", ":", " ", "c", "a", "l", "l", " ", "9", "1", "1", " ", "n", "o", "w", "\n", "W", "a", "r", "n", "i", "n", "g", ":", " ", "s", "t", "a", "y", " ", "c", "a", "l", "m">>

TextHarmful == <<"S", "t", "e", "p", " ", "1", ":", " ", "t", "a", "k", "e", " ", "a", "n", " ", "o", "v", "e", "r", "d", "o", "s", "e">>

ProviderTexts == {TextValid, TextHarmful}

\* FirstAidRequest.specific_concern: absent, or a text of the caller
Concerns ==
  {None,
   Some(<<"r", "i", "n", "g", " ", "5", "5", "5", "-", "9", "8", "7", "-", "6", "5", "4", "3">>)}

\* a handler's local variables, and the stages it has run (stages)
Idle ==
  [pc |-> "idle", kind |-> "", request |-> None, anonymized_context |-> None,
   reply |-> None, cached_response |-> None, use_fallback |-> FALSE,
   generated |-> None, llm_response |-> None, validation_result |-> None,
   data |-> None, caught |-> None, response |-> None, raised |-> None,
   user_prompt |-> None, stages |-> <<>>]

\* no function is being invoked on its own
NoCall == [fn |-> "", args |-> None, done |-> FALSE, result |-> None]

Contexts ==
  {[emergency_id |-> EmergencyIds[arrived + 1], emergency_type |-> ty,
    description |-> d, location |-> None, medical_profile |-> None,
    additional_info |-> None] : ty \in RequestTypes, d \in Descriptions}

Init ==
  /\ settings \in [ENABLE_CACHING : BOOLEAN, ENABLE_PII_ANONYMIZATION : BOOLEAN,
                   ENABLE_FALLBACK_RESPONSES : BOOLEAN,
                   OPENAI_API_KEY : BOOLEAN, ANTHROPIC_API_KEY : BOOLEAN]
  /\ cache = <<>>
  /\ req = [r \in 1..MaxInFlight |-> Idle]
  /\ arrived = 0
  /\ call = NoCall

\* a request arrives at an endpoint
Arrive(r, kind) ==
  /\ req[r].pc = "idle"
  /\ arrived < MaxRequests
  /\ arrived' = arrived + 1
  /\ \E context \in Contexts,
        specific_concern \in IF kind = "first_aid" THEN Concerns ELSE {None} :
       req' = [req EXCEPT ![r] =
                 [@ EXCEPT !.pc = "anonymize", !.kind = kind,
                           !.request = Some([emergency_context |-> context,
                                             specific_concern |-> specific_concern])]]
  /\ UNCHANGED <<call, settings, cache>>

\* POST /assess
assess_emergency(r) == Arrive(r, "assessment")

\* POST /first-aid
get_first_aid_guidance(r) == Arrive(r, "first_aid")

Anonymize(r) ==
  /\ req[r].pc = "anonymize"
  /\ LET context == req[r].request[1].emergency_context
     IN  req' = [req EXCEPT ![r] =
                   [@ EXCEPT !.pc = "cache_lookup",
                             !.stages = Append(@, "anonymize"),
                             !.anonymized_context =
                                IF settings.ENABLE_PII_ANONYMIZATION
                                THEN Some(anonymize_emergency_context(context))
                                ELSE Some(context)]]
  /\ UNCHANGED <<call, settings, cache, arrived>>

\* what client.get(key) may do: raise, or return the value under the key;
\* a key this service has not written may hold nothing or a foreign value
\* (entry notes the service's own entry under the key at that time)
GetReplies(key) ==
  LET entry == IF key \in DOMAIN cache THEN Some(cache[key]) ELSE None
  IN  {[raises |-> TRUE, value |-> None, entry |-> entry]} \cup
      (IF entry # None
       THEN {[raises |-> FALSE, value |-> entry, entry |-> entry]}
       ELSE {[raises |-> FALSE, value |-> None, entry |-> None]} \cup
            {[raises |-> FALSE, value |-> Some(x), entry |-> None] :
               x \in ForeignRaw})

\* cache.get_*_cache up to the answer of client.get; with the cache disabled
\* the client is not called
CacheLookup(r) ==
  /\ req[r].pc = "cache_lookup"
  /\ LET key == LookupKey(req[r].kind, req[r].anonymized_context[1])
     IN  \E reply \in IF settings.ENABLE_CACHING THEN GetReplies(key)
                      ELSE {[raises |-> FALSE, value |-> None,
                             entry |-> None]} :
           req' = [req EXCEPT ![r] =
                     [@ EXCEPT !.pc = "cache_result", !.reply = Some(reply),
                               !.stages = Append(@, "cache_lookup")]]
  /\ UNCHANGED <<call, settings, cache, arrived>>

\* cache.get_*_cache returns, and the cached response is returned if truthy
CacheResult(r) ==
  /\ req[r].pc = "cache_result"
  /\ LET cached_response == RedisCache_get(settings.ENABLE_CACHING, req[r].reply[1])
         looked == [req[r] EXCEPT !.cached_response = cached_response,
                                  !.reply = None]
         built == ResponseOf(req[r].kind, cached_response[1])
     IN  req' = [req EXCEPT ![r] =
           IF ~Truthy(cached_response)
           THEN [looked EXCEPT !.pc = "orchestrate"]
           ELSE IF built = None
           THEN [looked EXCEPT !.pc = "done",
                   !.raised = Some(OuterHandler(Exception("ValidationError")))]
           ELSE [looked EXCEPT !.pc = "done", !.response = built]]
  /\ UNCHANGED <<call, settings, cache, arrived>>

\* the try block up to the providers' answers, the providers answering with
\* one of texts or raising
OrchestrateWith(r, texts) ==
  /\ req[r].pc = "orchestrate"
  /\ \E primary_reply \in ProviderReplies(texts),
        fallback_reply \in ProviderReplies(texts) :
       LET user_prompt == PromptOf(req[r].kind, req[r].anonymized_context[1],
                                   req[r].request[1])
           generated == generate_response(LLMOrchestrator(settings), FALSE,
                                          primary_reply, fallback_reply)
       IN  req' = [req EXCEPT ![r] =
             IF generated.raises
             THEN [@ EXCEPT !.pc = "fallback", !.stages = Append(@, "orchestrate"),
                            !.user_prompt = Some(user_prompt),
                            !.caught = Some(Exception(generated.message))]
             ELSE [@ EXCEPT !.pc = "validate", !.stages = Append(@, "orchestrate"),
                            !.user_prompt = Some(user_prompt),
                            !.llm_response = Some(generated.content)]]
  /\ UNCHANGED <<call, settings, cache, arrived>>

Orchestrate(r) == OrchestrateWith(r, ProviderTexts)

Validate(r) ==
  /\ req[r].pc = "validate"
  /\ LET validation_result ==
           validate_llm_response(req[r].llm_response[1], req[r].kind, TRUE)
         next == ValidateNext(validation_result)
     IN  req' = [req EXCEPT ![r] =
           [@ EXCEPT !.pc = next, !.stages = Append(@, "validate"),
                     !.validation_result = Some(validation_result),
                     !.caught = IF next = "fallback"
                                THEN Some(Exception("LLM response validation failed"))
                                ELSE None]]
  /\ UNCHANGED <<call, settings, cache, arrived>>

Sanitize(r) ==
  /\ req[r].pc = "sanitize"
  /\ req' = [req EXCEPT ![r] =
       [@ EXCEPT !.pc = "parse", !.stages = Append(@, "sanitize"),
                 !.llm_response = Some(sanitize_response(req[r].llm_response[1]))]]
  /\ UNCHANGED <<call, settings, cache, arrived>>

Parse(r) ==
  /\ req[r].pc = "parse"
  /\ req' = [req EXCEPT ![r] =
       [@ EXCEPT !.pc = "cache_store", !.stages = Append(@, "parse"),
                 !.data = Some(ParseOf(req[r].kind, req[r].llm_response[1],
                                       req[r].anonymized_context[1]))]]
  /\ UNCHANGED <<call, settings, cache, arrived>>

\* CacheStore with the parsed data kept in one variable of the module, which
\* holds what the last handler to parse has left there
CacheStoreSharedData(r) ==
  /\ req[r].pc = "cache_store"
  /\ LET key == StoreKey(req[r].kind, req[r].anonymized_context[1])
         enabled == settings.ENABLE_CACHING
         last == CHOOSE o \in DOMAIN req :
                   /\ req[o].data # None
                   /\ \A x \in DOMAIN req : req[x].data # None => x <= o
     IN  \E setex_raises \in IF enabled THEN BOOLEAN ELSE {FALSE} :
           LET stored == RedisCache_set(enabled, req[last].data[1], setex_raises)
           IN  /\ cache' = IF stored.written
                           THEN [k \in DOMAIN cache \cup {key} |->
                                   IF k = key THEN json_dumps(req[last].data[1])
                                   ELSE cache[k]]
                           ELSE cache
               /\ req' = [req EXCEPT ![r] =
                    [@ EXCEPT !.pc = "done", !.stages = Append(@, "cache_store"),
                              !.response = ResponseOf(req[r].kind, req[last].data[1])]]
  /\ UNCHANGED <<call, settings, arrived>>

\* CacheStore with a write that did not happen treated as a failure of the
\* try block
CacheStoreMustWrite(r) ==
  /\ req[r].pc = "cache_store"
  /\ LET key == StoreKey(req[r].kind, req[r].anonymized_context[1])
         enabled == settings.ENABLE_CACHING
     IN  \E setex_raises \in IF enabled THEN BOOLEAN ELSE {FALSE} :
           LET stored == RedisCache_set(enabled, req[r].data[1], setex_raises)
           IN  /\ cache' = IF stored.written
                           THEN [k \in DOMAIN cache \cup {key} |->
                                   IF k = key THEN json_dumps(req[r].data[1])
                                   ELSE cache[k]]
                           ELSE cache
               /\ req' = [req EXCEPT ![r] =
                    IF stored.written
                    THEN [@ EXCEPT !.pc = "done", !.stages = Append(@, "cache_store"),
                                   !.response = ResponseOf(req[r].kind, req[r].data[1])]
                    ELSE [@ EXCEPT !.pc = "fallback", !.stages = Append(@, "cache_store"),
                                   !.caught = Some(Exception("cache write failed"))]]
  /\ UNCHANGED <<call, settings, arrived>>

\* cache.set_*_cache and the return of the response built from the data;
\* client.setex is called only with the cache enabled, and may raise
CacheStore(r) ==
  /\ req[r].pc = "cache_store"
  /\ LET key == StoreKey(req[r].kind, req[r].anonymized_context[1])
         enabled == settings.ENABLE_CACHING
     IN  \E setex_raises \in IF enabled THEN BOOLEAN ELSE {FALSE} :
           LET stored == RedisCache_set(enabled, req[r].data[1], setex_raises)
           IN  /\ cache' = IF stored.written
                           THEN [k \in DOMAIN cache \cup {key} |->
                                   IF k = key THEN json_dumps(req[r].data[1])
                                   ELSE cache[k]]
                           ELSE cache
               /\ req' = [req EXCEPT ![r] =
                    [@ EXCEPT !.pc = "done", !.stages = Append(@, "cache_store"),
                              !.response = ResponseOf(req[r].kind, req[r].data[1])]]
  /\ UNCHANGED <<call, settings, arrived>>

\* Fallback with the fallback result stored under the request's key
FallbackStores(r) ==
  /\ req[r].pc = "fallback"
  /\ LET handled == InnerHandler(settings.ENABLE_FALLBACK_RESPONSES, req[r].kind,
                                 req[r].request[1], req[r].anonymized_context[1])
         key == KeyOf(req[r].kind, req[r].anonymized_context[1])
     IN  /\ req' = [req EXCEPT ![r] =
              [@ EXCEPT !.pc = "done", !.stages = Append(@, "fallback"),
                        !.response = handled.response,
                        !.raised = IF handled.raised = None THEN None
                                   ELSE Some(OuterHandler(handled.raised[1]))]]
         /\ cache' = IF handled.response # None /\ settings.ENABLE_CACHING
                     THEN [k \in DOMAIN cache \cup {key} |->
                             IF k = key THEN json_dumps(handled.response[1])
                             ELSE cache[k]]
                     ELSE cache
  /\ UNCHANGED <<call, settings, arrived>>

\* Fallback with a validation failure reported as an internal error when
\* fallback is disabled, unlike the failure of the providers
FallbackByCause(r) ==
  /\ req[r].pc = "fallback"
  /\ LET handled == InnerHandler(settings.ENABLE_FALLBACK_RESPONSES, req[r].kind,
                                 req[r].request[1], req[r].anonymized_context[1])
     IN  req' = [req EXCEPT ![r] =
           [@ EXCEPT !.pc = "done", !.stages = Append(@, "fallback"),
                     !.response = handled.response,
                     !.raised = IF handled.raised = None THEN None
                                ELSE IF req[r].caught =
                                          Some(Exception("LLM response validation failed"))
                                THEN Some(OuterHandler(req[r].caught[1]))
                                ELSE Some(OuterHandler(handled.raised[1]))]]
  /\ UNCHANGED <<call, settings, cache, arrived>>

\* the except clause of the try block, and the outer handlers behind it
Fallback(r) ==
  /\ req[r].pc = "fallback"
  /\ LET handled == InnerHandler(settings.ENABLE_FALLBACK_RESPONSES, req[r].kind,
                                 req[r].request[1], req[r].anonymized_context[1])
     IN  req' = [req EXCEPT ![r] =
           [@ EXCEPT !.pc = "done", !.stages = Append(@, "fallback"),
                     !.response = handled.response,
                     !.raised = IF handled.raised = None THEN None
                                ELSE Some(OuterHandler(handled.raised[1]))]]
  /\ UNCHANGED <<call, settings, cache, arrived>>

\* the response or the error has gone to the caller: the handler is over
Respond(r) ==
  /\ req[r].pc = "done"
  /\ req' = [req EXCEPT ![r] = Idle]
  /\ UNCHANGED <<call, settings, cache, arrived>>

\* the entry's time to live (settings.CACHE_TTL) runs out
Expire(key) ==
  /\ key \in DOMAIN cache
  /\ cache' = [k \in DOMAIN cache \ {key} |-> cache[k]]
  /\ UNCHANGED <<call, settings, req, arrived>>

\* a caller invokes the orchestrator on its own, with either use_fallback
GenerateResponse(r) ==
  /\ req[r].pc = "idle"
  /\ arrived < MaxRequests
  /\ arrived' = arrived + 1
  /\ \E use_fallback \in BOOLEAN,
        primary_reply \in ProviderReplies(ProviderTexts),
        fallback_reply \in ProviderReplies(ProviderTexts) :
       LET generated == generate_response(LLMOrchestrator(settings), use_fallback,
                                          primary_reply, fallback_reply)
       IN  req' = [req EXCEPT ![r] =
             [@ EXCEPT !.pc = "done", !.kind = "generate",
                       !.use_fallback = use_fallback,
                       !.generated = Some(generated),
                       !.llm_response = IF generated.raises THEN None
                                        ELSE Some(generated.content),
                       !.raised = IF generated.raises
                                  THEN Some(Exception(generated.message))
                                  ELSE None]]
  /\ UNCHANGED <<call, settings, cache>>

Next ==
  \/ \E r \in DOMAIN req : assess_emergency(r)
  \/ \E r \in DOMAIN req : get_first_aid_guidance(r)
  \/ \E r \in DOMAIN req : Anonymize(r)
  \/ \E r \in DOMAIN req : CacheLookup(r)
  \/ \E r \in DOMAIN req : CacheResult(r)
  \/ \E r \in DOMAIN req : Orchestrate(r)
  \/ \E r \in DOMAIN req : Validate(r)
  \/ \E r \in DOMAIN req : Sanitize(r)
  \/ \E r \in DOMAIN req : Parse(r)
  \/ \E r \in DOMAIN req : CacheStore(r)
  \/ \E r \in DOMAIN req : Fallback(r)
  \/ \E r \in DOMAIN req : Respond(r)
  \/ \E r \in DOMAIN req : GenerateResponse(r)
  \/ \E key \in DOMAIN cache : Expire(key)

Spec == Init /\ [][Next]_vars

\* Two handlers in flight at once: a handler gives way at its calls of the
\* cache and of the providers, and between them another may run.  The
\* service runs with the cache, the fallback and both providers configured,
\* with or without anonymization.
MaxConcurrent == 2

ConcurrentInit ==
  /\ settings \in [ENABLE_CACHING : {TRUE}, ENABLE_PII_ANONYMIZATION : BOOLEAN,
                   ENABLE_FALLBACK_RESPONSES : {TRUE},
                   OPENAI_API_KEY : {TRUE}, ANTHROPIC_API_KEY : {TRUE}]
  /\ cache = <<>>
  /\ req = [r \in 1..MaxConcurrent |-> Idle]
  /\ arrived = 0
  /\ call = NoCall

\* what a provider may answer in the concurrent runs: the texts of
\* ProviderTexts, a usable text of two steps on two lines, and a usable text
\* with no step line
GuidanceTexts ==
  ProviderTexts \cup
  {<<"S", "t", "e", "p", " ", "1", ":", " ", "c", "a", "l", "l", " ", "9", "1", "1", " ", "n", "o", "w", "\n", "S", "t", "e", "p", " ", "2", ":", " ", "s", "t", "a", "y", " ", "c", "a", "l", "m">>,
   <<"C", "a", "l", "l", " ", "9", "1", "1", " ", "a", "n", "d", " ", "k", "e", "e", "p", " ", "t", "h", "e", " ", "p", "e", "r", "s", "o", "n", " ", "s", "t", "i", "l", "l">>}

\* the inputs of the concurrent runs: medical emergencies described with a
\* phone number, no specific concern; a cache that holds only what the
\* service wrote
ConcurrentInputs ==
  \A r \in DOMAIN req :
    /\ req[r].request # None =>
         /\ req[r].request[1].emergency_context.emergency_type = "medical"
         /\ Contains(req[r].request[1].emergency_context.description,
                     <<"5", "5", "5">>)
         /\ req[r].request[1].specific_concern = None
    /\ req[r].reply # None => req[r].reply[1].value = req[r].reply[1].entry

ConcurrentNext ==
  \/ \E r \in DOMAIN req : assess_emergency(r) /\ ConcurrentInputs'
  \/ \E r \in DOMAIN req : get_first_aid_guidance(r) /\ ConcurrentInputs'
  \/ \E r \in DOMAIN req : Anonymize(r)
  \/ \E r \in DOMAIN req : CacheLookup(r) /\ ConcurrentInputs'
  \/ \E r \in DOMAIN req : CacheResult(r)
  \/ \E r \in DOMAIN req : OrchestrateWith(r, GuidanceTexts)
  \/ \E r \in DOMAIN req : Validate(r)
  \/ \E r \in DOMAIN req : Sanitize(r)
  \/ \E r \in DOMAIN req : Parse(r)
  \/ \E r \in DOMAIN req : CacheStore(r)
  \/ \E r \in DOMAIN req : Fallback(r)
  \/ \E r \in DOMAIN req : Respond(r)
  \/ \E key \in DOMAIN cache : Expire(key)

ConcurrentSpec == ConcurrentInit /\ [][ConcurrentNext]_vars

(***************************************************************************)
(* The functions of the service invoked on their own: the arguments are    *)
(* drawn at the start, and a step is one call that returns.                *)
(***************************************************************************)
TextPhoneEmail == <<"C", "a", "l", "l", " ", "m", "e", " ", "a", "t", " ", "5", "5", "5", "-", "1", "2", "3", "-", "4", "5", "6", "7", " ", "o", "r", " ", "e", "m", "a", "i", "l", " ", "a", "@", "b", ".", "c", "o", "m">>

TextPhoneInEmail == <<"m", "a", "i", "l", " ", "5", "5", "5", "-", "1", "2", "3", "-", "4", "5", "6", "7", "@", "e", "x", "a", "m", "p", "l", "e", ".", "c", "o", "m">>

TextPhoneInUrl == <<"s", "e", "e", " ", "h", "t", "t", "p", ":", "/", "/", "x", ".", "c", "o", "/", "5", "5", "5", "-", "1", "2", "3", "-", "4", "5", "6", "7">>

TextDigitsBeforeUrl == <<"5", "5", "5", "1", "2", "3", "4", "5", "6", "7", "h", "t", "t", "p", ":", "/", "/", "x", ".", "c", "o">>

TextPlain == <<"c", "h", "e", "s", "t", " ", "p", "a", "i", "n", " ", "s", "i", "n", "c", "e", " ", "n", "o", "o", "n">>

TextAddress == <<"I", " ", "l", "i", "v", "e", " ", "a", "t", " ", "1", "2", "3", " ", "M", "a", "i", "n", " ", "S", "t", "r", "e", "e", "t">>

TextSsnCard == <<"s", "s", "n", " ", "1", "2", "3", "-", "4", "5", "-", "6", "7", "8", "9", " ", "c", "a", "r", "d", " ", "1", "2", "3", "4", " ", "5", "6", "7", "8", " ", "9", "0", "1", "2", " ", "3", "4", "5", "6">>

TextTitle == <<"D", "r", ".", " ", "J", "o", "h", "n", " ", "D", "o", "e", " ", "f", "e", "l", "l">>

TextPhone == <<"c", "a", "l", "l", " ", "5", "5", "5", "-", "1", "2", "3", "-", "4", "5", "6", "7", " ", "n", "o", "w">>

AnonymizerTexts ==
  {<<>>, TextPhoneEmail, TextPhoneInEmail, TextPhoneInUrl, TextDigitsBeforeUrl,
   TextPlain, TextAddress, TextSsnCard, TextTitle, TextPhone}

\* Location values: coordinates both given or both absent
Locations ==
  {None} \cup
  {Some([latitude |-> xy[1], longitude |-> xy[2], address |-> address,
         city |-> place[1], country |-> place[2]]) :
     xy \in {<<None, None>>, <<Some("37.7749"), Some("-122.4194")>>},
     address \in {None, Some(<<>>), Some(<<"1", "2", "3", " ", "M", "a", "i", "n", " ", "S", "t", "r", "e", "e", "t">>)},
     place \in {<<None, None>>, <<Some(<<"S", "a", "n", " ", "F", "r", "a", "n", "c", "i", "s", "c", "o">>), None>>,
                <<Some(<<"S", "a", "n", " ", "F", "r", "a", "n", "c", "i", "s", "c", "o">>), Some(<<"U", "S", "A">>)>>}}

\* MedicalProfile values: the lists are texts of the caller
MedicalProfiles ==
  {None,
   Some([blood_type |-> Some("O+"), allergies |-> <<<<"p", "e", "n", "i", "c", "i", "l", "l", "i", "n">>>>,
         medical_conditions |-> <<<<"a", "s", "t", "h", "m", "a">>>>, medications |-> <<>>,
         age_range |-> Some("30-50")]),
   Some([blood_type |-> None, allergies |-> <<>>,
         medical_conditions |-> <<>>, medications |-> <<TextPhone>>,
         age_range |-> None])}

AnonymizerContexts ==
  {[emergency_id |-> "emergency-1", emergency_type |-> "medical",
    description |-> d, location |-> l, medical_profile |-> m,
    additional_info |-> a] :
     d \in {TextPhoneEmail, TextPlain, TextAddress},
     a \in {None, Some(<<>>), Some(TextSsnCard)},
     l \in Locations, m \in MedicalProfiles}

\* descriptions for the cache key: two that agree on the characters the key
\* takes and differ after them, and a short one
LongDescription(tail) ==
  [i \in 1..CacheKeyDescriptionChars |-> "a"] \o tail

KeyDescriptions ==
  {LongDescription(<<"b">>), LongDescription(<<"c", "d">>), TextPlain}

\* contexts as the endpoints hand them to the cache
KeyContexts ==
  {[emergency_id |-> id, emergency_type |-> ty, description |-> d,
    location |-> None, medical_profile |-> None, additional_info |-> None] :
     id \in {"emergency-1", "emergency-2"}, ty \in {"medical", "fire"},
     d \in KeyDescriptions}

KeyRequests ==
  {[kind |-> kind, anonymized_context |-> context] :
     kind \in {"assessment", "first_aid"}, context \in KeyContexts}

\* keyword arguments in the two orders a call can give them
KeywordArguments ==
  UNION {{<<<<"type", ty>>, <<"desc", d>>>>, <<<<"desc", d>>, <<"type", ty>>>>} :
           ty \in {"medical", "fire"}, d \in {TextPlain, TextPhone}}

\* response texts for validate_llm_response; the last one is longer than
\* the maximum length
ValidatorTexts ==
  {\* the empty text
   <<>>,
   \* whitespace only
   <<" ", "\n", " ", " ">>,
   \* a response with a disclaimer keyword and a call to action
   <<"S", "e", "v", "e", "r", "i", "t", "y", ":", " ", "H", "I", "G", "H", ".", " ", "T", "h", "i", "s", " ", "i", "s", " ", "s", "e", "r", "i", "o", "u", "s", ":", " ", "c", "a", "l", "l", " ", "9", "1", "1", " ", "n", "o", "w", ".", " ", "T", "h", "i", "s", " ", "i", "s", " ", "n", "o", "t", " ", "a", " ", "s", "u", "b", "s", "t", "i", "t", "u", "t", "e", " ", "f", "o", "r", " ", "p", "r", "o", "f", "e", "s", "s", "i", "o", "n", "a", "l", " ", "m", "e", "d", "i", "c", "a", "l", " ", "a", "d", "v", "i", "c", "e", ".">>,
   \* test_harmful_content of the repository's tests
   <<"Y", "o", "u", " ", "s", "h", "o", "u", "l", "d", " ", "i", "g", "n", "o", "r", "e", " ", "m", "e", "d", "i", "c", "a", "l", " ", "a", "d", "v", "i", "c", "e", " ", "a", "n", "d", " ", "j", "u", "s", "t", " ", "w", "a", "i", "t", " ", "i", "t", " ", "o", "u", "t", ".">>,
   \* the phrase followed by other words
   <<"i", "g", "n", "o", "r", "e", " ", "m", "e", "d", "i", "c", "a", "l", " ", "a", "d", "v", "i", "c", "e", " ", "a", "n", "d", " ", "s", "k", "i", "p", " ", "t", "h", "e", " ", "d", "o", "c", "t", "o", "r">>,
   \* test_missing_disclaimer of the repository's tests
   <<"T", "h", "i", "s", " ", "i", "s", " ", "s", "e", "v", "e", "r", "e", ".", " ", "D", "o", " ", "s", "o", "m", "e", "t", "h", "i", "n", "g", " ", "i", "m", "m", "e", "d", "i", "a", "t", "e", "l", "y", ".">>,
   \* one disclaimer keyword of the four
   <<"R", "e", "s", "t", " ", "a", "n", "d", " ", "d", "r", "i", "n", "k", " ", "w", "a", "t", "e", "r", " ", "s", "l", "o", "w", "l", "y", ";", " ", "t", "h", "i", "s", " ", "i", "s", " ", "n", "o", "t", " ", "a", " ", "s", "u", "b", "s", "t", "i", "t", "u", "t", "e", " ", "f", "o", "r", " ", "s", "e", "e", "i", "n", "g", " ", "a", " ", "d", "o", "c", "t", "o", "r", ".">>,
   \* the third and the fourth disclaimer keyword
   <<"R", "i", "n", "g", " ", "9", "1", "1", " ", "o", "r", " ", "y", "o", "u", "r", " ", "l", "o", "c", "a", "l", " ", "e", "m", "e", "r", "g", "e", "n", "c", "y", " ", "s", "e", "r", "v", "i", "c", "e", "s", " ", "r", "i", "g", "h", "t", " ", "a", "w", "a", "y", " ", "a", "n", "d", " ", "s", "t", "a", "y", " ", "o", "n", " ", "t", "h", "e", " ", "l", "i", "n", "e", ".">>,
   \* two harmful patterns
   <<"D", "o", " ", "n", "o", "t", " ", "s", "k", "i", "p", " ", "h", "o", "s", "p", "i", "t", "a", "l", " ", "c", "a", "r", "e", ";", " ", "a", " ", "g", "u", "a", "r", "a", "n", "t", "e", "e", "d", " ", "c", "u", "r", "e", " ", "d", "o", "e", "s", " ", "n", "o", "t", " ", "e", "x", "i", "s", "t", ",", " ", "c", "a", "l", "l", " ", "9", "1", "1", " ", "n", "o", "w", ".">>,
   \* definitive language next to a disclaimer keyword
   <<"T", "h", "i", "s", " ", "r", "e", "m", "e", "d", "y", " ", "i", "s", " ", "a", "l", "w", "a", "y", "s", " ", "s", "a", "f", "e", " ", "a", "n", "d", " ", "1", "0", "0", "%", " ", "e", "f", "f", "e", "c", "t", "i", "v", "e", ";", " ", "i", "t", " ", "i", "s", " ", "n", "o", "t", " ", "a", " ", "s", "u", "b", "s", "t", "i", "t", "u", "t", "e", " ", "f", "o", "r", " ", "a", " ", "d", "o", "c", "t", "o", "r", ".">>,
   \* a self-harm term
   <<"o", "v", "e", "r", "d", "o", "s", "e">>,
   \* a self-harm term with a tag inside it
   <<"G", "i", "v", "e", " ", "a", "n", " ", "o", "v", "e", "r", "<", "b", ">", "d", "o", "s", "e", "<", "/", "b", ">", " ", "o", "f", " ", "t", "h", "e", " ", "m", "e", "d", "i", "c", "i", "n", "e", ",", " ", "t", "h", "e", "n", " ", "c", "a", "l", "l", " ", "9", "1", "1">>,
   \* tags, line breaks and a phone number in a harmless text
   <<"<", "p", ">", "K", "e", "e", "p", " ", "t", "h", "e", " ", "p", "e", "r", "s", "o", "n", " ", " ", "w", "a", "r", "m", ",", "\n", "\n", "t", "h", "e", "n", " ", "c", "a", "l", "l", " ", "9", "1", "1", " ", "o", "r", " ", "5", "5", "5", "-", "1", "2", "3", "-", "4", "5", "6", "7", "<", "/", "p", ">">>,
   [i \in 1..(MaxResponseLength + 1) |-> IF i % 5 = 0 THEN " " ELSE "a"]}

\* provider texts for _parse_first_aid_response: texts written out, and
\* every text of one, two or three lines of the kinds the scan tells apart
FirstAidTexts ==
  LET lines == {<<"S", "t", "e", "p", " ", "4", ":", " ", "p", "r", "e", "s", "s">>,
                <<"W", "a", "r", "n", "i", "n", "g", ":", " ", "h", "o", "t">>,
                <<"D", "u", "r", "a", "t", "i", "o", "n", ":", " ", "2", " ", "m", "i", "n">>,
                <<"C", "r", "i", "t", "i", "c", "a", "l", " ", "w", "a", "r", "n", "i", "n", "g", ":", " ", "g", "a", "s">>,
                <<"k", "e", "e", "p", " ", "c", "a", "l", "m">>,
                <<"N", "e", "x", "t", " ", "s", "t", "e", "p", ":", " ", "w", "a", "r", "n", "i", "n", "g", ",", " ", "d", "u", "r", "a", "t", "i", "o", "n", " ", "5", " ", "m", "i", "n">>}
  IN  {\* three steps, one warning line and one duration line
       <<"S", "t", "e", "p", " ", "1", ":", " ", "C", "h", "e", "c", "k", " ", "t", "h", "e", " ", "s", "c", "e", "n", "e", "\n", "S", "t", "e", "p", " ", "2", ":", " ", "A", "p", "p", "l", "y", " ", "p", "r", "e", "s", "s", "u", "r", "e", "\n", "W", "a", "r", "n", "i", "n", "g", ":", " ", "D", "o", " ", "n", "o", "t", " ", "r", "e", "m", "o", "v", "e", " ", "t", "h", "e", " ", "c", "l", "o", "t", "h", "\n", "S", "t", "e", "p", " ", "3", ":", " ", "W", "a", "i", "t", " ", "f", "o", "r", " ", "h", "e", "l", "p", "\n", "D", "u", "r", "a", "t", "i", "o", "n", ":", " ", "U", "n", "t", "i", "l", " ", "h", "e", "l", "p", " ", "a", "r", "r", "i", "v", "e", "s">>,
       \* numbers of the provider's own, and a duration given twice
       <<"S", "t", "e", "p", " ", "7", ":", " ", "C", "o", "o", "l", " ", "t", "h", "e", " ", "b", "u", "r", "n", "\n", "D", "u", "r", "a", "t", "i", "o", "n", ":", " ", "1", "0", " ", "m", "i", "n", "u", "t", "e", "s", "\n", "D", "u", "r", "a", "t", "i", "o", "n", ":", " ", "2", "0", " ", "m", "i", "n", "u", "t", "e", "s", "\n", " ", " ", "s", "t", "e", "p", " ", "9", ":", " ", "C", "o", "v", "e", "r", " ", "i", "t">>,
       \* a line with "warning" and "duration" under a step
       <<"S", "t", "e", "p", " ", "1", ":", " ", "r", "e", "s", "t", "\n", "W", "a", "r", "n", "i", "n", "g", ":", " ", "d", "u", "r", "a", "t", "i", "o", "n", " ", "m", "a", "y", " ", "v", "a", "r", "y", "\n", "D", "u", "r", "a", "t", "i", "o", "n", ":", " ", "5", " ", "m", "i", "n">>,
       \* no step line and no critical warning
       <<"K", "e", "e", "p", " ", "c", "a", "l", "m", " ", "a", "n", "d", " ", "w", "a", "i", "t", ".">>,
       \* the empty text
       <<>>,
       \* critical warnings with no step open, more than the cap
       <<"C", "r", "i", "t", "i", "c", "a", "l", " ", "w", "a", "r", "n", "i", "n", "g", " ", "1", "\n", "C", "r", "i", "t", "i", "c", "a", "l", " ", "w", "a", "r", "n", "i", "n", "g", " ", "2", "\n", "C", "r", "i", "t", "i", "c", "a", "l", " ", "w", "a", "r", "n", "i", "n", "g", " ", "3", "\n", "C", "r", "i", "t", "i", "c", "a", "l", " ", "w", "a", "r", "n", "i", "n", "g", " ", "4", "\n", "C", "r", "i", "t", "i", "c", "a", "l", " ", "w", "a", "r", "n", "i", "n", "g", " ", "5", "\n", "C", "r", "i", "t", "i", "c", "a", "l", " ", "w", "a", "r", "n", "i", "n", "g", " ", "6">>,
       \* a critical warning under an open step
       <<"S", "t", "e", "p", " ", "1", ":", " ", "C", "h", "e", "c", "k", " ", "b", "r", "e", "a", "t", "h", "i", "n", "g", "\n", "C", "r", "i", "t", "i", "c", "a", "l", " ", "w", "a", "r", "n", "i", "n", "g", ":", " ", "d", "o", " ", "n", "o", "t", " ", "m", "o", "v", "e", " ", "t", "h", "e", " ", "p", "e", "r", "s", "o", "n">>,
       \* a critical warning before the first step
       <<"C", "R", "I", "T", "I", "C", "A", "L", " ", "W", "A", "R", "N", "I", "N", "G", ":", " ", "s", "t", "a", "y", " ", "a", "w", "a", "y", " ", "f", "r", "o", "m", " ", "s", "m", "o", "k", "e", "\n", "S", "t", "e", "p", " ", "1", ":", " ", "L", "e", "a", "v", "e", " ", "t", "h", "e", " ", "b", "u", "i", "l", "d", "i", "n", "g">>,
       \* three steps, the first with a warning and a duration given twice
       <<"S", "t", "e", "p", " ", "1", ":", " ", "S", "i", "t", " ", "d", "o", "w", "n", "\n", "W", "a", "r", "n", "i", "n", "g", ":", " ", "D", "o", " ", "n", "o", "t", " ", "r", "u", "n", "\n", "D", "u", "r", "a", "t", "i", "o", "n", ":", " ", "1", " ", "m", "i", "n", "u", "t", "e", "\n", "D", "u", "r", "a", "t", "i", "o", "n", ":", " ", "5", " ", "m", "i", "n", "u", "t", "e", "s", "\n", "S", "t", "e", "p", " ", "2", ":", " ", "B", "r", "e", "a", "t", "h", "e", "\n", "S", "t", "e", "p", " ", "3", ":", " ", "W", "a", "i", "t">>,
       \* more step lines than the cap
       <<"S", "t", "e", "p", " ", "1", ":", " ", "d", "o", " ", "a", "\n", "S", "t", "e", "p", " ", "2", ":", " ", "d", "o", " ", "b", "\n", "S", "t", "e", "p", " ", "3", ":", " ", "d", "o", " ", "c", "\n", "S", "t", "e", "p", " ", "4", ":", " ", "d", "o", " ", "d", "\n", "S", "t", "e", "p", " ", "5", ":", " ", "d", "o", " ", "e", "\n", "S", "t", "e", "p", " ", "6", ":", " ", "d", "o", " ", "f", "\n", "S", "t", "e", "p", " ", "7", ":", " ", "d", "o", " ", "g", "\n", "S", "t", "e", "p", " ", "8", ":", " ", "d", "o", " ", "h", "\n", "S", "t", "e", "p", " ", "9", ":", " ", "d", "o", " ", "i", "\n", "S", "t", "e", "p", " ", "1", "0", ":", " ", "d", "o", " ", "j", "\n", "S", "t", "e", "p", " ", "1", "1", ":", " ", "d", "o", " ", "k", "\n", "S", "t", "e", "p", " ", "1", "2", ":", " ", "d", "o", " ", "l">>}
      \cup lines
      \cup {a \o <<"\n">> \o b : a \in lines, b \in lines}
      \cup {a \o <<"\n">> \o b \o <<"\n">> \o c : a \in lines, b \in lines, c \in lines}

\* provider texts for _parse_assessment_response
AssessmentTexts ==
  {\* no list line
   <<"S", "e", "v", "e", "r", "i", "t", "y", ":", " ", "H", "I", "G", "H", ".", " ", "K", "e", "e", "p", " ", "c", "a", "l", "m", ".">>,
   \* the empty text
   <<>>,
   \* list lines of the three kinds, more than the cap
   <<"c", "r", "i", "t", "i", "c", "a", "l", ",", " ", "c", "a", "l", "l", " ", "9", "1", "1", "\n", "-", " ", "S", "t", "a", "y", " ", "c", "a", "l", "m", "\n", Bullet, " ", "K", "e", "e", "p", " ", "w", "a", "r", "m", "\n", "1", ".", " ", "C", "h", "e", "c", "k", " ", "b", "r", "e", "a", "t", "h", "i", "n", "g", "\n", "2", ")", " ", "L", "i", "e", " ", "d", "o", "w", "n", "\n", "-", " ", "\n", "3", ".", " ", "W", "a", "i", "t", "\n", "-", " ", "D", "r", "i", "n", "k", " ", "w", "a", "t", "e", "r", "\n", "-", " ", "R", "e", "s", "t">>,
   \* list lines that hold nothing but their marks
   <<"l", "o", "w", " ", "r", "i", "s", "k", "\n", "-", " ", "\n", "1", "2", ".", " ", "\n", Bullet>>,
   \* every keyword, the weakest first
   <<"L", "o", "w", " ", "t", "o", " ", "m", "e", "d", "i", "u", "m", " ", "r", "i", "s", "k", ",", " ", "n", "o", "t", " ", "c", "r", "i", "t", "i", "c", "a", "l">>,
   \* two keywords in mixed case
   <<"M", "e", "D", "i", "U", "m", " ", "r", "i", "s", "k", ";", " ", "f", "o", "l", "l", "o", "w", " ", "u", "p", " ", "b", "e", "l", "o", "w">>,
   \* a keyword inside a word
   <<"B", "r", "e", "a", "t", "h", "e", " ", "s", "l", "o", "w", "l", "y", " ", "a", "n", "d", " ", "r", "e", "s", "t">>,
   \* two list lines
   <<"m", "e", "d", "i", "u", "m", "\n", "-", " ", "R", "e", "s", "t", "\n", "-", " ", "D", "r", "i", "n", "k", " ", "w", "a", "t", "e", "r">>}

\* MedicalProfile.age_range as a caller may give it: absent, an exact age,
\* a range, and texts that are neither
AgeRanges ==
  {None} \cup
  {Some(age) : age \in
     {\* exact ages, on both sides of every threshold
      <<"0">>,
      <<"5">>,
      <<"1", "7">>,
      <<"1", "8">>,
      <<"2", "5">>,
      <<"2", "9">>,
      <<"3", "0">>,
      <<"4", "9">>,
      <<"5", "0">>,
      <<"6", "9">>,
      <<"7", "0">>,
      <<"7", "1">>,
      <<"1", "2", "0">>,
      <<" ", "4", "2", " ">>,
      <<"0", "0", "7">>,
      <<"1", "_", "8">>,
      \* ranges
      <<"3", "0", "-", "5", "0">>,
      <<"2", "0", "-", "3", "0">>,
      <<"6", "0", "+">>,
      <<"7", "0", "+">>,
      <<"0", "-", "1", "8">>,
      \* other texts
      <<"2", "5", " ", "y", "e", "a", "r", "s">>,
      <<"+", "2", "5">>,
      <<"2", "5", ".", "5">>,
      <<"a", "d", "u", "l", "t">>,
      <<>>}}

\* test_detect_pii of the repository's tests
TextShortPhoneEmail == <<"C", "a", "l", "l", " ", "5", "5", "5", "-", "1", "2", "3", "4", " ", "o", "r", " ", "e", "m", "a", "i", "l", " ", "t", "e", "s", "t", "@", "e", "x", "a", "m", "p", "l", "e", ".", "c", "o", "m">>

\* a call not yet made
Pending(fn, args) == [fn |-> fn, args |-> args, done |-> FALSE, result |-> None]

FunctionInit ==
  /\ settings = [ENABLE_CACHING |-> TRUE, ENABLE_PII_ANONYMIZATION |-> TRUE,
                 ENABLE_FALLBACK_RESPONSES |-> TRUE,
                 OPENAI_API_KEY |-> TRUE, ANTHROPIC_API_KEY |-> TRUE]
  /\ cache = <<>>
  /\ req = [r \in 1..MaxInFlight |-> Idle]
  /\ arrived = 0
  /\ \/ call \in {Pending("anonymize_text", text) : text \in AnonymizerTexts}
     \/ call \in {Pending("anonymize_emergency_context", context) :
                     context \in AnonymizerContexts}
     \/ call \in {Pending("_generate_cache_key", [prefix |-> prefix, kwargs |-> kwargs]) :
                     prefix \in {"assessment", "first_aid"},
                     kwargs \in KeywordArguments}
     \/ call \in {Pending("cache_keys", <<a, b>>) : a \in KeyRequests, b \in KeyRequests}
     \/ call \in {Pending("get_fallback_assessment", emergency_type) :
                     emergency_type \in EmergencyType}
     \/ call \in {Pending("MedicalProfile", [age_range |-> age_range]) :
                     age_range \in AgeRanges}
     \/ call \in {Pending("detect_pii", text) :
                     text \in AnonymizerTexts \cup
                       {TextShortPhoneEmail,
                        <<"a", "t", " ", "5", " ", "O", "a", "k", " ", "L", "a", "n", "e">>}}
     \/ call \in {Pending("validate_llm_response",
                           [response_text |-> text, response_type |-> kind,
                            require_disclaimer |-> flag]) :
                     text \in ValidatorTexts, kind \in {"assessment", "first_aid"},
                     flag \in BOOLEAN}
     \/ call \in {Pending("_parse_first_aid_response",
                           [llm_response |-> text, context |-> context]) :
                     text \in FirstAidTexts,
                     context \in {c \in KeyContexts : c.description = TextPlain}}
     \/ call \in {Pending("_parse_assessment_response",
                           [llm_response |-> text, context |-> context]) :
                     text \in AssessmentTexts,
                     context \in {c \in KeyContexts : c.description = TextPlain}}

\* anonymize_text(text) returns
CallAnonymizeText ==
  /\ call.fn = "anonymize_text" /\ ~call.done
  /\ call' = [call EXCEPT !.done = TRUE, !.result = Some(anonymize_text(call.args))]
  /\ UNCHANGED <<settings, cache, req, arrived>>

\* anonymize_emergency_context with the assignments made to the argument
\* itself, no copy taken
AnonymizeInPlace(context) ==
  [context |-> anonymize_emergency_context(context),
   anonymized |-> anonymize_emergency_context(context)]

\* anonymize_emergency_context as a call: the caller's object after the call
\* (context) and the object returned (anonymized), which is a deep copy of
\* the argument with the new values assigned to it
AnonymizeCall(context) ==
  [context |-> context, anonymized |-> anonymize_emergency_context(context)]

\* anonymize_emergency_context(context) returns
CallAnonymizeContext ==
  /\ call.fn = "anonymize_emergency_context" /\ ~call.done
  /\ call' = [call EXCEPT !.done = TRUE, !.result = Some(AnonymizeCall(call.args))]
  /\ UNCHANGED <<settings, cache, req, arrived>>

\* _generate_cache_key(prefix, **kwargs) returns
CallGenerateCacheKey ==
  /\ call.fn = "_generate_cache_key" /\ ~call.done
  /\ call' = [call EXCEPT !.done = TRUE,
                 !.result = Some(_generate_cache_key(call.args.prefix, call.args.kwargs))]
  /\ UNCHANGED <<settings, cache, req, arrived>>

\* two requests each derive the key of their cache lookup and of their
\* cache store
CallCacheKeys ==
  /\ call.fn = "cache_keys" /\ ~call.done
  /\ call' = [call EXCEPT !.done = TRUE,
                 !.result = Some([i \in 1..2 |->
                   [lookup |-> LookupKey(call.args[i].kind,
                                         call.args[i].anonymized_context),
                    store |-> StoreKey(call.args[i].kind,
                                       call.args[i].anonymized_context)]])]
  /\ UNCHANGED <<settings, cache, req, arrived>>

\* FallbackService.get_fallback_assessment(emergency_type) returns
CallGetFallbackAssessment ==
  /\ call.fn = "get_fallback_assessment" /\ ~call.done
  /\ call' = [call EXCEPT !.done = TRUE,
                 !.result = Some(get_fallback_assessment(call.args))]
  /\ UNCHANGED <<settings, cache, req, arrived>>

\* validate_llm_response(response_text, response_type, require_disclaimer)
\* returns
CallValidate ==
  /\ call.fn = "validate_llm_response" /\ ~call.done
  /\ call' = [call EXCEPT !.done = TRUE,
                 !.result = Some(validate_llm_response(call.args.response_text,
                                                       call.args.response_type,
                                                       call.args.require_disclaimer))]
  /\ UNCHANGED <<settings, cache, req, arrived>>

\* _parse_first_aid_response(llm_response, context) returns
CallParseFirstAid ==
  /\ call.fn = "_parse_first_aid_response" /\ ~call.done
  /\ call' = [call EXCEPT !.done = TRUE,
                 !.result = Some(_parse_first_aid_response(call.args.llm_response,
                                                           call.args.context))]
  /\ UNCHANGED <<settings, cache, req, arrived>>

\* _parse_assessment_response(llm_response, context) returns
CallParseAssessment ==
  /\ call.fn = "_parse_assessment_response" /\ ~call.done
  /\ call' = [call EXCEPT !.done = TRUE,
                 !.result = Some(_parse_assessment_response(call.args.llm_response,
                                                            call.args.context))]
  /\ UNCHANGED <<settings, cache, req, arrived>>

\* MedicalProfile(age_range=...) returns the profile, its age_range validated
CallMedicalProfile ==
  /\ call.fn = "MedicalProfile" /\ ~call.done
  /\ call' = [call EXCEPT !.done = TRUE,
                 !.result = Some([age_range |-> validate_age_range(call.args.age_range)])]
  /\ UNCHANGED <<settings, cache, req, arrived>>

\* detect_pii(text) returns; text is the caller's object after the call
CallDetectPii ==
  /\ call.fn = "detect_pii" /\ ~call.done
  /\ call' = [call EXCEPT !.done = TRUE,
                 !.result = Some([text |-> call.args,
                                  pii_detected |-> detect_pii(call.args)])]
  /\ UNCHANGED <<settings, cache, req, arrived>>

FunctionNext ==
  \/ CallAnonymizeText
  \/ CallAnonymizeContext
  \/ CallGenerateCacheKey
  \/ CallCacheKeys
  \/ CallGetFallbackAssessment
  \/ CallValidate
  \/ CallParseFirstAid
  \/ CallParseAssessment
  \/ CallMedicalProfile
  \/ CallDetectPii

FunctionSpec == FunctionInit /\ [][FunctionNext]_vars

(***************************************************************************)
(* The claims.                                                             *)
(***************************************************************************)
Pipeline(r) == req[r].kind \in {"assessment", "first_aid"}

Done(r) == req[r].pc = "done"

OwnContext(r) == req[r].request[1].emergency_context

StagesOf(r) == {req[r].stages[i] : i \in DOMAIN req[r].stages}

\* the Fallback Knowledge Base result for a request's kind and category
KnowledgeBaseResult(r) ==
  IF req[r].kind = "assessment"
  THEN LET row == get_fallback_assessment(OwnContext(r).emergency_type)
       IN  [severity |-> row.severity, assessment |-> row.assessment,
            recommendations |-> row.recommendations,
            call_emergency_services |-> row.call_emergency_services]
  ELSE [emergency_type |-> OwnContext(r).emergency_type,
        steps |-> get_fallback_first_aid(OwnContext(r).emergency_type),
        critical_warnings |-> get_critical_warnings(OwnContext(r).emergency_type)]

\* C1: with fallback responses enabled, a request whose orchestrate, validate
\* or parse stage failed always goes on to its handler, and ends with a
\* result and no error: the Fallback Knowledge Base result for the request's
\* category, under the request's own identifier.
C1_FailureEndsInFallbackResult ==
  \A r \in DOMAIN req :
    (Pipeline(r) /\ settings.ENABLE_FALLBACK_RESPONSES /\ req[r].caught # None) =>
      /\ req[r].pc \in {"fallback", "done"}
      /\ Done(r) =>
           /\ req[r].raised = None
           /\ req[r].response # None
           /\ req[r].response[1].success
           /\ req[r].response[1].emergency_id = OwnContext(r).emergency_id
           /\ \A f \in DOMAIN KnowledgeBaseResult(r) :
                req[r].response[1][f] = KnowledgeBaseResult(r)[f]

\* C1 witness: a medical first-aid request whose provider text was rejected
\* by validation has ended with the medical steps of the knowledge base
C1_Witness ==
  \E r \in DOMAIN req :
    /\ Done(r) /\ req[r].kind = "first_aid"
    /\ settings.ENABLE_FALLBACK_RESPONSES
    /\ req[r].caught = Some(Exception("LLM response validation failed"))
    /\ OwnContext(r).emergency_type = "medical"
    /\ req[r].response # None
    /\ req[r].response[1].steps = FALLBACK_FIRST_AID.medical

\* C2: every request that returns a result, by cache hit, by the LLM path or
\* by fallback, returns it under the identifier of its own emergency context.
C2_ResultCarriesOwnIdentifier ==
  \A r \in DOMAIN req :
    (Pipeline(r) /\ Done(r) /\ req[r].response # None) =>
      req[r].response[1].emergency_id = OwnContext(r).emergency_id

\* C3: a request that goes through fallback performs no cache write: it
\* never runs the cache store stage and no cache entry holds a result it
\* produced (a stored result carries the identifier of the request that
\* stored it, and each request has an identifier of its own).
C3_FallbackWritesNoCache ==
  \A r \in DOMAIN req :
    (Pipeline(r) /\ (req[r].pc = "fallback" \/ "fallback" \in StagesOf(r))) =>
      /\ "cache_store" \notin StagesOf(r)
      /\ \A k \in DOMAIN cache :
           cache[k][2].emergency_id # OwnContext(r).emergency_id

\* C3 witness: a request has returned a fallback result while the cache is
\* enabled and holds an entry stored by the request before it
C3_Witness ==
  \E r \in DOMAIN req :
    /\ Done(r) /\ Pipeline(r) /\ "fallback" \in StagesOf(r)
    /\ req[r].response # None
    /\ settings.ENABLE_CACHING
    /\ cache # <<>>

IsPrefix(a, b) == Len(a) <= Len(b) /\ a = SubSeq(b, 1, Len(a))

MissPath ==
  <<"anonymize", "cache_lookup", "orchestrate", "validate", "sanitize", "parse",
    "cache_store">>

\* the stages that have an error edge, by their place in MissPath
ErrorEdgeFrom == {3, 4, 6}

\* C4: on a cache miss the stages run in the order anonymize, cache lookup,
\* orchestrate, validate, sanitize, parse, cache store, done, each one after
\* its predecessor has completed; the only other edges lead from orchestrate,
\* validate (exactly when the outcome is invalid) or parse to fallback, and
\* from fallback to done.
C4_StageOrder ==
  \A r \in DOMAIN req :
    Pipeline(r) =>
      LET st == req[r].stages
          pc == req[r].pc
          n  == Len(st)
          miss == ~Truthy(req[r].cached_response)
      IN  \/ /\ IsPrefix(st, MissPath)
             /\ \/ n < 2 /\ pc = MissPath[n + 1]
                \/ n = 2 /\ pc = "cache_result"
                \/ n = 2 /\ pc = "done" /\ ~miss
                \/ n = 2 /\ pc = "orchestrate" /\ miss
                \/ n \in 3..6 /\ pc = MissPath[n + 1] /\ miss
                \/ n \in ErrorEdgeFrom /\ pc = "fallback" /\ miss
                \/ n = 7 /\ pc = "done" /\ miss
             /\ n = 4 => (pc = "fallback" <=> ~req[r].validation_result[1].is_valid)
          \/ /\ n \in {k + 1 : k \in ErrorEdgeFrom}
             /\ IsPrefix(SubSeq(st, 1, n - 1), MissPath)
             /\ st[n] = "fallback"
             /\ pc = "done" /\ miss
             /\ n = 5 => ~req[r].validation_result[1].is_valid

\* C4 witness: a request has missed the cache and run every stage to done
C4_Witness ==
  \E r \in DOMAIN req :
    /\ Pipeline(r) /\ Done(r)
    /\ req[r].stages = MissPath
    /\ req[r].response # None

\* the cache key a request derives
OwnKey(r) == KeyOf(req[r].kind, req[r].anonymized_context[1])

\* a step of request r out of the cache lookup ends the request with the
\* entry under its key as the response, and leaves the cache alone
ReturnsEntry(r) ==
  /\ req'[r].pc = "done"
  /\ req'[r].raised = None
  /\ req'[r].response = ResponseOf(req[r].kind, req[r].reply[1].entry[1][2])
  /\ req'[r].response # None
  /\ req'[r].stages = <<"anonymize", "cache_lookup">>
  /\ cache' = cache

\* a request that has found a well-formed cached response has ended with it
\* and has run no stage after the lookup
HitGoesToDone ==
  \A r \in DOMAIN req :
    (Pipeline(r) /\ Truthy(req[r].cached_response)
     /\ ResponseOf(req[r].kind, req[r].cached_response[1]) # None) =>
       /\ Done(r)
       /\ req[r].response = ResponseOf(req[r].kind, req[r].cached_response[1])
       /\ req[r].stages = <<"anonymize", "cache_lookup">>
       /\ req[r].llm_response = None
       /\ req[r].validation_result = None
       /\ req[r].data = None
       /\ req[r].caught = None

Generated(r) == req[r].kind = "generate" /\ Done(r)

\* the providers a call may ask, in order: the configured ones, without the
\* primary when use_fallback is set
ProviderOrder(r) ==
  (IF ~req[r].use_fallback /\ LLMOrchestrator(settings).primary_llm
   THEN <<"primary">> ELSE <<>>)
  \o (IF LLMOrchestrator(settings).fallback_llm THEN <<"fallback">> ELSE <<>>)

\* the configured providers
Configured ==
  {p \in {"primary", "fallback"} :
     IF p = "primary" THEN LLMOrchestrator(settings).primary_llm
     ELSE LLMOrchestrator(settings).fallback_llm}

\* C6: generate_response asks the configured providers strictly in order,
\* primary then secondary (the primary left out when use_fallback is set),
\* goes on only past a provider that raised, and returns the text of the
\* first provider that did not raise; after a success no provider is asked.
C6_ProvidersInOrder ==
  \A r \in DOMAIN req :
    Generated(r) =>
      LET g == req[r].generated[1]
          n == Len(g.calls)
      IN  /\ IsPrefix([i \in 1..n |-> g.calls[i].provider], ProviderOrder(r))
          /\ \A i \in 1..(n - 1) : g.calls[i].raises
          /\ n < Len(ProviderOrder(r)) => ~g.calls[n].raises
          /\ ~g.raises <=> (n > 0 /\ ~g.calls[n].raises)
          /\ ~g.raises => /\ g.content = g.calls[n].content
                          /\ req[r].llm_response = Some(g.calls[n].content)

\* C6 witness: the primary raised and the text of the secondary came back
C6_Witness ==
  \E r \in DOMAIN req :
    /\ Generated(r)
    /\ ~req[r].use_fallback
    /\ req[r].generated[1].calls =
         <<[provider |-> "primary", raises |-> TRUE, content |-> <<>>],
           [provider |-> "fallback", raises |-> FALSE, content |-> TextValid]>>
    /\ req[r].llm_response = Some(TextValid)

\* C7: generate_response fails only if every configured provider was asked
\* and raised, or none is configured, whatever the configuration, the
\* providers' outcomes and use_fallback.
C7_FailsOnlyWhenAllAttempted ==
  \A r \in DOMAIN req :
    (Generated(r) /\ req[r].generated[1].raises) =>
      \A p \in Configured :
        \E i \in DOMAIN req[r].generated[1].calls :
          /\ req[r].generated[1].calls[i].provider = p
          /\ req[r].generated[1].calls[i].raises

\* C8: within one call of generate_response no provider is asked twice.
C8_EachProviderAtMostOnce ==
  \A r \in DOMAIN req :
    Generated(r) =>
      LET calls == req[r].generated[1].calls
      IN  /\ \A i, j \in DOMAIN calls :
               calls[i].provider = calls[j].provider => i = j
          /\ \A i \in DOMAIN calls : calls[i].provider \in Configured

\* C8 witness: both providers raised, and each was asked once
C8_Witness ==
  \E r \in DOMAIN req :
    /\ Generated(r)
    /\ req[r].generated[1].raises
    /\ Len(req[r].generated[1].calls) = 2
    /\ req[r].generated[1].calls[1].provider = "primary"
    /\ req[r].generated[1].calls[2].provider = "fallback"

\* the failure of the orchestrator with every provider unavailable
ProvidersUnavailable ==
  {Some(Exception("All LLM providers failed")),
   Some(Exception("No LLM providers available"))}

\* C9: an endpoint raises to its caller only when fallback is disabled and
\* all providers failed; in every other case the request ends with a result.
C9_OnlyFailureIsProvidersDownWithoutFallback ==
  \A r \in DOMAIN req :
    (Pipeline(r) /\ Done(r)) =>
      IF ~settings.ENABLE_FALLBACK_RESPONSES /\ req[r].caught \in ProvidersUnavailable
      THEN req[r].raised # None
      ELSE req[r].raised = None /\ req[r].response # None

\* C10: with fallback disabled and every provider unavailable the request
\* ends with the HTTP 503 error of the handler, unchanged by the outer
\* handler, with no result and no cache write.
C10_ServiceUnavailableReported ==
  \A r \in DOMAIN req :
    (Pipeline(r) /\ ~settings.ENABLE_FALLBACK_RESPONSES
     /\ req[r].caught \in ProvidersUnavailable) =>
      /\ req[r].pc \in {"fallback", "done"}
      /\ "cache_store" \notin StagesOf(r)
      /\ \A k \in DOMAIN cache :
           cache[k][2].emergency_id # OwnContext(r).emergency_id
      /\ Done(r) => /\ req[r].raised = Some(HTTPException(503))
                    /\ req[r].response = None

\* C10 witness: both providers raised with fallback disabled, and the
\* request has ended with the 503
C10_Witness ==
  \E r \in DOMAIN req :
    /\ Pipeline(r) /\ Done(r)
    /\ ~settings.ENABLE_FALLBACK_RESPONSES
    /\ req[r].caught = Some(Exception("All LLM providers failed"))
    /\ req[r].raised = Some(HTTPException(503))

\* the failure raised when validation marks the provider's text invalid
ValidationFailed == Some(Exception("LLM response validation failed"))

\* how a failed LLM path ends, whatever made it fail
FailureOutcome(r) ==
  InnerHandler(settings.ENABLE_FALLBACK_RESPONSES, req[r].kind,
               req[r].request[1], req[r].anonymized_context[1])

\* C11: a provider text that validation marks invalid is handled like the
\* failure of all providers: the text is never sanitized, parsed, cached or
\* returned, and the request ends as every failed LLM path ends, with the
\* fallback result, or with the HTTP 503 error when fallback is disabled.
C11_InvalidHandledLikeUnavailable ==
  \A r \in DOMAIN req :
    (Pipeline(r) /\ req[r].validation_result # None
     /\ ~req[r].validation_result[1].is_valid) =>
      /\ req[r].caught = ValidationFailed
      /\ req[r].pc \in {"fallback", "done"}
      /\ StagesOf(r) \cap {"sanitize", "parse", "cache_store"} = {}
      /\ req[r].data = None
      /\ \A k \in DOMAIN cache :
           cache[k][2].emergency_id # OwnContext(r).emergency_id
      /\ Done(r) =>
           /\ req[r].response = FailureOutcome(r).response
           /\ req[r].raised = FailureOutcome(r).raised
           /\ IF settings.ENABLE_FALLBACK_RESPONSES
              THEN /\ req[r].raised = None /\ req[r].response # None
                   /\ \A f \in DOMAIN KnowledgeBaseResult(r) :
                        req[r].response[1][f] = KnowledgeBaseResult(r)[f]
              ELSE req[r].raised = Some(HTTPException(503)) /\ req[r].response = None

\* C11 witness: the harmful text of a provider was rejected with fallback
\* disabled, and the request has ended with the 503
C11_Witness ==
  \E r \in DOMAIN req :
    /\ Pipeline(r) /\ Done(r)
    /\ req[r].llm_response = Some(TextHarmful)
    /\ req[r].caught = ValidationFailed
    /\ ~settings.ENABLE_FALLBACK_RESPONSES
    /\ req[r].raised = Some(HTTPException(503))

\* the caller's text that a part of a prompt is made from, by the part's label
CallerText(r) ==
  [l \in {"**Description:** ", "**Situation:** "} |->
     Some(OwnContext(r).description)]
  @@ [l \in {"**Additional Information:** ", "**Additional Context:** "} |->
        OwnContext(r).additional_info]
  @@ [l \in {"**Specific Concern:** "} |-> req[r].request[1].specific_concern]

\* C12: with PII anonymization enabled, every text of the caller that is in
\* the prompt sent to the providers (description, additional info, specific
\* concern of a first-aid request) is the anonymizer's output for that text.
C12_PromptTextsAnonymized ==
  \A r \in DOMAIN req :
    (Pipeline(r) /\ settings.ENABLE_PII_ANONYMIZATION /\ req[r].user_prompt # None) =>
      LET prompt == req[r].user_prompt[1]
      IN  \A i \in DOMAIN prompt :
            prompt[i].label \in DOMAIN CallerText(r) =>
              prompt[i].texts = <<anonymize_text(CallerText(r)[prompt[i].label][1])>>

\* a returned call of a function
Returned(fn) == call.fn = fn /\ call.done

\* the patterns of the tokens that must not survive anonymization
PiiPatterns == {"PHONE", "EMAIL", "SSN", "CREDIT_CARD", "ADDRESS"}

\* the text has a token that one of the patterns matches
HasToken(patterns, s) ==
  \E p \in patterns, i \in 1..Len(s) : MatchEnd(p, s, i) > i

Range(seq) == {seq[i] : i \in DOMAIN seq}

OptionalTexts(opts) == {o[1] : o \in {x \in opts : x # None}}

\* the texts held by the fields of a context
FieldTexts(context) ==
  {context.description}
  \cup OptionalTexts({context.additional_info})
  \cup (IF context.location = None THEN {}
        ELSE OptionalTexts({context.location[1].address, context.location[1].city,
                            context.location[1].country}))
  \cup (IF context.medical_profile = None THEN {}
        ELSE Range(context.medical_profile[1].allergies)
             \cup Range(context.medical_profile[1].medical_conditions)
             \cup Range(context.medical_profile[1].medications))

\* C13: the context returned by anonymize_emergency_context has no field
\* (description, additional info, address, city, country, allergy, condition
\* and medication entries) with a phone, email, street-address, SSN or
\* credit-card token, and its latitude and longitude are absent.
C13_NoPiiTokenAfterAnonymize ==
  Returned("anonymize_emergency_context") =>
    LET anonymized == call.result[1].anonymized
    IN  /\ \A text \in FieldTexts(anonymized) : ~HasToken(PiiPatterns, text)
        /\ anonymized.location # None =>
             /\ anonymized.location[1].latitude = None
             /\ anonymized.location[1].longitude = None

\* C14: anonymize_emergency_context returns a copy and leaves its argument
\* as it was: after the call every field of the caller's context has its
\* prior value, and the copy carries the same identifier and category.
C14_OriginalUnchanged ==
  Returned("anonymize_emergency_context") =>
    /\ \A f \in DOMAIN call.args : call.result[1].context[f] = call.args[f]
    /\ call.result[1].anonymized.emergency_id = call.args.emergency_id
    /\ call.result[1].anonymized.emergency_type = call.args.emergency_type

\* C14 witness: the copy returned differs from the caller's context in its
\* description and its location, and the caller's context is as it was
C14_Witness ==
  /\ Returned("anonymize_emergency_context")
  /\ call.result[1].context = call.args
  /\ call.result[1].anonymized.description # call.args.description
  /\ call.args.location # None
  /\ call.args.location[1].latitude # None
  /\ call.result[1].anonymized.location # call.args.location

\* the literal that stands for an address
AddressPlaceholder == <<"[", "A", "D", "D", "R", "E", "S", "S", "]">>

\* C15: for a context with a location, anonymize_emergency_context clears
\* latitude and longitude whatever else the location holds, puts [ADDRESS]
\* for an address that is there (a text that is not empty), keeps city and
\* country, and leaves the medical profile as it is; an optional field that
\* is missing stays missing and the call returns.
C15_LocationAnonymized ==
  Returned("anonymize_emergency_context") =>
    LET given == call.args
        anonymized == call.result[1].anonymized
    IN  /\ call.result # None
        /\ anonymized.medical_profile = given.medical_profile
        /\ given.additional_info = None => anonymized.additional_info = None
        /\ given.location = None => anonymized.location = None
        /\ given.location # None =>
             /\ anonymized.location # None
             /\ anonymized.location[1].latitude = None
             /\ anonymized.location[1].longitude = None
             /\ anonymized.location[1].city = given.location[1].city
             /\ anonymized.location[1].country = given.location[1].country
             /\ anonymized.location[1].address =
                  IF Present(given.location[1].address)
                  THEN Some(AddressPlaceholder)
                  ELSE given.location[1].address

\* C15 witness: a location with coordinates and a city but no address has
\* come back without coordinates and with its city
C15_Witness ==
  /\ Returned("anonymize_emergency_context")
  /\ call.args.location # None
  /\ call.args.location[1].address = None
  /\ call.args.location[1].latitude # None
  /\ call.args.location[1].city # None
  /\ call.result[1].anonymized.location[1].latitude = None
  /\ call.result[1].anonymized.location[1].city = call.args.location[1].city

\* the tokens of a text that a pattern matches
Tokens(p, s) ==
  {Slice(s, i, MatchEnd(p, s, i)) :
     i \in {j \in 1..Len(s) : MatchEnd(p, s, j) > j}}

\* C16: for a text with a phone-number token, the text anonymize_text
\* returns holds the literal [PHONE] and no phone-number token; and an email
\* address in the text is replaced by [EMAIL], the address itself being gone.
C16_PhoneAndEmailReplaced ==
  Returned("anonymize_text") =>
    LET text == call.args
        anonymized == call.result[1]
    IN  /\ HasToken({"PHONE"}, text) =>
             /\ Contains(anonymized, <<"[", "P", "H", "O", "N", "E", "]">>)
             /\ ~HasToken({"PHONE"}, anonymized)
        /\ HasToken({"EMAIL"}, text) =>
             /\ Contains(anonymized, <<"[", "E", "M", "A", "I", "L", "]">>)
             /\ \A address \in Tokens("EMAIL", text) : ~Contains(anonymized, address)

\* a sequence in the opposite order
Reverse(seq) == [i \in DOMAIN seq |-> seq[Len(seq) + 1 - i]]

\* what the cache key of a request is made from
KeyInputs(request) ==
  <<request.kind, request.anonymized_context.emergency_type,
    FirstN(request.anonymized_context.description, CacheKeyDescriptionChars)>>

\* C17: the cache key is a function of the namespace, the category and the
\* first 100 characters of the description only: the order of the keyword
\* arguments does not change it, two requests that agree on the three derive
\* the same key whatever their other fields, the lookup and the store of a
\* request use the same key, and keys of the two namespaces differ.
C17_CacheKeyDeterministic ==
  /\ Returned("_generate_cache_key") =>
       call.result[1] = _generate_cache_key(call.args.prefix, Reverse(call.args.kwargs))
  /\ Returned("cache_keys") =>
       LET keys == call.result[1]
       IN  /\ \A i \in 1..2 : keys[i].lookup = keys[i].store
           /\ KeyInputs(call.args[1]) = KeyInputs(call.args[2]) =>
                keys[1].lookup = keys[2].lookup
           /\ call.args[1].kind # call.args[2].kind =>
                keys[1].lookup # keys[2].lookup

\* C17 witness: two requests with identifiers of their own, and descriptions
\* that differ after the first 100 characters, have derived the same key
C17_Witness ==
  /\ Returned("cache_keys")
  /\ call.args[1].anonymized_context.emergency_id
       # call.args[2].anonymized_context.emergency_id
  /\ call.args[1].anonymized_context.description
       # call.args[2].anonymized_context.description
  /\ call.result[1][1].lookup = call.result[1][2].store

\* a request that has ended with the result of its fallback handler
EndedInFallback(r) ==
  /\ Pipeline(r) /\ Done(r)
  /\ "fallback" \in StagesOf(r)
  /\ req[r].response # None

\* C18: for every emergency category, with a row in the tables or without,
\* the fallback assessment, first-aid steps and warnings come back complete;
\* and after any sequence of requests a request that ends in fallback gets
\* exactly what the three functions give for its category, so that the same
\* category always gets the same output.
C18_FallbackTotalAndRepeatable ==
  /\ \A emergency_type \in EmergencyType :
       LET assessment == get_fallback_assessment(emergency_type)
           steps == get_fallback_first_aid(emergency_type)
           warnings == get_critical_warnings(emergency_type)
       IN  /\ DOMAIN assessment = {"severity", "assessment", "recommendations",
                                   "call_emergency_services"}
           /\ assessment.severity \in SeverityLevel
           /\ assessment.assessment # <<>>
           /\ assessment.recommendations # <<>>
           /\ assessment.call_emergency_services \in BOOLEAN
           /\ steps # <<>>
           /\ \A i \in DOMAIN steps :
                steps[i].step_number = i /\ steps[i].instruction # <<>>
           /\ warnings # <<>>
           /\ \A i \in DOMAIN warnings : warnings[i] # <<>>
  /\ \A r \in DOMAIN req :
       EndedInFallback(r) =>
         LET emergency_type == OwnContext(r).emergency_type
         IN  IF req[r].kind = "assessment"
             THEN \A f \in DOMAIN get_fallback_assessment(emergency_type) :
                    req[r].response[1][f] = get_fallback_assessment(emergency_type)[f]
             ELSE /\ req[r].response[1].steps = get_fallback_first_aid(emergency_type)
                  /\ req[r].response[1].critical_warnings =
                       get_critical_warnings(emergency_type)

\* C18 witness: the second request of a sequence, of a category with no row
\* in the first-aid table, has ended with the steps given for such a category
C18_Witness ==
  \E r \in DOMAIN req :
    /\ EndedInFallback(r)
    /\ arrived = 2
    /\ req[r].kind = "first_aid"
    /\ OwnContext(r).emergency_type \notin DOMAIN FALLBACK_FIRST_AID
    /\ Len(req[r].response[1].steps) = 3

\* C19: a medical assessment request that missed the cache and found every
\* provider failing, with fallback enabled, returns the medical assessment
\* of the knowledge base: severity high, call_emergency_services true and
\* exactly 5 recommendations, under the request's identifier.
C19_MedicalFallbackAssessment ==
  \A r \in DOMAIN req :
    (/\ Pipeline(r) /\ Done(r)
     /\ req[r].kind = "assessment"
     /\ OwnContext(r).emergency_type = "medical"
     /\ settings.ENABLE_FALLBACK_RESPONSES
     /\ req[r].caught \in ProvidersUnavailable) =>
      /\ req[r].raised = None
      /\ req[r].response # None
      /\ req[r].response[1].success
      /\ req[r].response[1].emergency_id = OwnContext(r).emergency_id
      /\ req[r].response[1].severity = "high"
      /\ req[r].response[1].call_emergency_services
      /\ Len(req[r].response[1].recommendations) = 5
      /\ req[r].response[1].recommendations = FALLBACK_ASSESSMENTS.medical.recommendations
      /\ req[r].response[1].assessment = FALLBACK_ASSESSMENTS.medical.assessment

\* C19 witness: both providers are configured and raised, and the medical
\* assessment request has ended with a result
C19_Witness ==
  \E r \in DOMAIN req :
    /\ Pipeline(r) /\ Done(r)
    /\ req[r].kind = "assessment"
    /\ OwnContext(r).emergency_type = "medical"
    /\ settings.ENABLE_FALLBACK_RESPONSES
    /\ req[r].caught = Some(Exception("All LLM providers failed"))
    /\ ~Truthy(req[r].cached_response)
    /\ req[r].response # None

\* C20: the fallback assessment for the fire category has severity critical
\* and its assessment text contains "evacuate", letters compared without
\* case.
C20_FireAssessmentSaysEvacuate ==
  (Returned("get_fallback_assessment") /\ call.args = "fire") =>
    /\ call.result[1].severity = "critical"
    /\ Contains(lower(call.result[1].assessment),
                <<"e", "v", "a", "c", "u", "a", "t", "e">>)

\* C21: for every text, response kind and require_disclaimer value, the
\* outcome of validate is invalid if and only if its error list is not
\* empty; warnings, whatever their kind and number, leave it valid.
C21_InvalidIffErrors ==
  Returned("validate_llm_response") =>
    (call.result[1].is_valid = FALSE <=> call.result[1].errors # <<>>)

\* C21: validate returned three warnings and no error for a text
C21_Witness ==
  /\ Returned("validate_llm_response")
  /\ Len(call.result[1].warnings) = 3
  /\ call.result[1].errors = <<>>

\* C22: the severity tag of every validation outcome is the highest signal
\* seen: "error" if an error was appended, otherwise "warning" if a warning
\* was appended (disclaimer, length, definitive language or missing call to
\* action), otherwise "info".
C22_SeverityIsHighestSignal ==
  Returned("validate_llm_response") =>
    call.result[1].severity =
      IF call.result[1].errors # <<>> THEN "error"
      ELSE IF call.result[1].warnings # <<>> THEN "warning"
      ELSE "info"

\* C23: for every raw text shorter than the minimum length, validate returns
\* is_valid = false with a non-empty error list.
C23_ShortTextInvalid ==
  (Returned("validate_llm_response")
     /\ Len(call.args.response_text) < MinResponseLength) =>
    /\ call.result[1].is_valid = FALSE
    /\ call.result[1].errors # <<>>

\* C23 as amended: a raw text shorter than the minimum length is invalid,
\* with a non-empty error list, exactly when it is empty, holds whitespace
\* only or matches a harmful-content pattern; any other text under the
\* minimum length is valid, has no error and carries the warning that the
\* response may be too brief.
C23_ShortTextWarned ==
  (Returned("validate_llm_response")
     /\ Len(call.args.response_text) < MinResponseLength) =>
    LET text == call.args.response_text
        bad  == strip(text) = <<>> \/ HARMFUL_PATTERNS(text) # <<>>
    IN  /\ call.result[1].is_valid = ~bad
        /\ (call.result[1].errors # <<>>) = bad
        /\ strip(text) # <<>> =>
             "Response may be too brief" \in Range(call.result[1].warnings)

\* C23: validate returned a valid outcome with the warning for a text that
\* is shorter than the minimum length
C23_Witness ==
  /\ Returned("validate_llm_response")
  /\ Len(call.args.response_text) < MinResponseLength
  /\ call.result[1].is_valid
  /\ "Response may be too brief" \in Range(call.result[1].warnings)

\* C24: for every raw text with harmful phrasing of the listed kinds, and so
\* for every text that contains the phrase "ignore medical advice", validate
\* returns is_valid = false with at least one error.
C24_HarmfulPhrasingInvalid ==
  (Returned("validate_llm_response")
     /\ \/ HARMFUL_PATTERNS(call.args.response_text) # <<>>
        \/ Contains(lower(call.args.response_text),
                    <<"i", "g", "n", "o", "r", "e", " ", "m", "e", "d", "i", "c", "a", "l", " ", "a", "d", "v", "i", "c", "e">>)) =>
    /\ call.result[1].is_valid = FALSE
    /\ Len(call.result[1].errors) >= 1

\* the number of the four disclaimer keywords that occur in a text, letters
\* compared without case
KeywordsIn(text) ==
  Cardinality({k \in DOMAIN REQUIRED_DISCLAIMER_KEYWORDS :
                 Contains(lower(text), lower(REQUIRED_DISCLAIMER_KEYWORDS[k]))})

\* C25: with require_disclaimer set, validate appends the missing-disclaimer
\* warning exactly when the text (one that is not blank, so that the rule is
\* reached) contains fewer than two of the four disclaimer keywords; the
\* warning is never an error and raises the severity tag to at least
\* "warning".
C25_DisclaimerNeedsTwoKeywords ==
  (Returned("validate_llm_response")
     /\ call.args.require_disclaimer
     /\ strip(call.args.response_text) # <<>>) =>
    LET missing == "Response should include appropriate medical disclaimer"
        warned  == missing \in Range(call.result[1].warnings)
    IN  /\ warned <=> KeywordsIn(call.args.response_text) < 2
        /\ missing \notin Range(call.result[1].errors)
        /\ warned => call.result[1].severity \in {"warning", "error"}

\* C26: for an empty text and for a text of whitespace only validate stops
\* at its first rule: the outcome is invalid, has the empty-response error as
\* its one error, no warning, and severity "error", whatever the response
\* kind and require_disclaimer are.
C26_EmptyShortCircuits ==
  (Returned("validate_llm_response")
     /\ strip(call.args.response_text) = <<>>) =>
    call.result[1] = [is_valid |-> FALSE, errors |-> <<"Response is empty">>,
                      warnings |-> <<>>, severity |-> "error"]

\* C26: validate returned for a text of whitespace only with the disclaimer
\* required, a text the disclaimer and length rules would warn about
C26_Witness ==
  /\ Returned("validate_llm_response")
  /\ call.args.response_text # <<>>
  /\ strip(call.args.response_text) = <<>>
  /\ call.args.require_disclaimer
  /\ call.result[1].errors = <<"Response is empty">>

\* a line that opens a step: it holds "step", in either case, and a colon
IsStepLine(raw) ==
  Contains(lower(raw), <<"s", "t", "e", "p">>) /\ Contains(raw, <<":">>)

\* the lines of a text that open a step, in the order of the text
StepLines(text) == SelectSeq(split(text, "\n"), IsStepLine)

\* C27: for every text the steps parse_first_aid returns are numbered 1..n
\* in the order met, n at most 10, whatever number a line carries; when the
\* text has step-opening lines, each of them yields one step, the open step
\* being appended when the next one opens and the last one at the end of the
\* scan, and the steps past the tenth are dropped.
C27_StepsNumberedInOrder ==
  Returned("_parse_first_aid_response") =>
    LET steps  == call.result[1].steps
        opened == StepLines(call.args.llm_response)
    IN  /\ Len(steps) <= MaxSteps
        /\ \A i \in DOMAIN steps : steps[i].step_number = i
        /\ opened # <<>> =>
             /\ Len(steps) = IF Len(opened) < MaxSteps THEN Len(opened) ELSE MaxSteps
             /\ \A i \in DOMAIN steps :
                   steps[i].instruction = strip(afterFirstColon(strip(opened[i])))

\* C27: parse_first_aid returned steps 1 and 2 for a text whose second
\* step-opening line carries the number 9
C27_Witness ==
  /\ Returned("_parse_first_aid_response")
  /\ Len(StepLines(call.args.llm_response)) = 2
  /\ Contains(lower(StepLines(call.args.llm_response)[2]), <<"s", "t", "e", "p", " ", "9", ":">>)
  /\ Len(call.result[1].steps) = 2
  /\ call.result[1].steps[2].step_number = 2

\* the number of step-opening lines among the first n lines: the step that
\* is open when line n has been scanned, 0 for none
OpenAt(lines, n) == Cardinality({i \in 1..n : IsStepLine(lines[i])})

\* a warning line of a step: it holds "warning" and opens no step; the
\* lines with "critical warning" are left to C29
IsWarningLine(raw) ==
  /\ ~IsStepLine(raw)
  /\ Contains(lower(raw), <<"w", "a", "r", "n", "i", "n", "g">>)
  /\ ~Contains(lower(raw), <<"c", "r", "i", "t", "i", "c", "a", "l", " ", "w", "a", "r", "n", "i", "n", "g">>)

\* a duration line: it holds "duration", no "warning", and opens no step
IsDurationLine(raw) ==
  /\ ~IsStepLine(raw)
  /\ ~Contains(lower(raw), <<"w", "a", "r", "n", "i", "n", "g">>)
  /\ Contains(lower(raw), <<"d", "u", "r", "a", "t", "i", "o", "n">>)

\* C28: parse_first_aid applied to a well-formed text of 3 steps with a
\* warning line and a duration line yields exactly 3 steps numbered 1, 2, 3;
\* a warning is attached to the step under which it appears and to no other
\* step, and so is a duration, the last one under a step when it is
\* repeated.  Stated for every text of 1 to 10 step-opening lines.
C28_WarningAndDurationUnderTheirStep ==
  (Returned("_parse_first_aid_response")
     /\ Len(StepLines(call.args.llm_response)) \in 1..MaxSteps) =>
    LET lines == split(call.args.llm_response, "\n")
        steps == call.result[1].steps
        under(k, Is(_)) == {n \in DOMAIN lines : OpenAt(lines, n) = k /\ Is(lines[n])}
        said(n) == AfterColonOrLine(strip(lines[n]))
    IN  /\ [i \in DOMAIN steps |-> steps[i].step_number] =
             [i \in 1..Len(StepLines(call.args.llm_response)) |-> i]
        /\ \A k \in DOMAIN steps :
              /\ \A n \in under(k, IsWarningLine) : said(n) \in Range(steps[k].warnings)
              /\ \A w \in Range(steps[k].warnings) :
                    \E n \in DOMAIN lines :
                       /\ OpenAt(lines, n) = k
                       /\ Contains(lower(lines[n]), <<"w", "a", "r", "n", "i", "n", "g">>)
                       /\ said(n) = w
              /\ steps[k].duration =
                   IF under(k, IsDurationLine) = {} THEN None
                   ELSE Some(said(Max(under(k, IsDurationLine))))

\* C28: parse_first_aid returned three steps for a text of three step lines
\* with one warning line, under step 2, and one duration line, under step 3
C28_Witness ==
  /\ Returned("_parse_first_aid_response")
  /\ LET lines == split(call.args.llm_response, "\n")
     IN  /\ Len(StepLines(call.args.llm_response)) = 3
         /\ {OpenAt(lines, n) : n \in {i \in DOMAIN lines : IsWarningLine(lines[i])}} = {2}
         /\ {OpenAt(lines, n) : n \in {i \in DOMAIN lines : IsDurationLine(lines[i])}} = {3}
  /\ Len(call.result[1].steps) = 3
  /\ Len(call.result[1].steps[2].warnings) = 1
  /\ call.result[1].steps[3].duration # None

\* C29: in parse_first_aid every line with "critical warning" (one that
\* opens no step) is collected into the top-level list of critical warnings
\* and is attached to no step, whether or not a step is open when the line
\* is scanned.  Stated for the texts with at most 5 such lines, which the
\* cap of the list leaves whole.
C29_CriticalWarningsCollected ==
  Returned("_parse_first_aid_response") =>
    LET lines == split(call.args.llm_response, "\n")
        steps == call.result[1].steps
        crit  == {n \in DOMAIN lines :
                    /\ ~IsStepLine(lines[n])
                    /\ Contains(lower(lines[n]), <<"c", "r", "i", "t", "i", "c", "a", "l", " ", "w", "a", "r", "n", "i", "n", "g">>)}
    IN  Cardinality(crit) <= MaxCriticalWarnings =>
          \A n \in crit :
             /\ strip(lines[n]) \in Range(call.result[1].critical_warnings)
             /\ StepLines(call.args.llm_response) # <<>> =>
                  \A k \in DOMAIN steps :
                     AfterColonOrLine(strip(lines[n])) \notin Range(steps[k].warnings)

\* C30: a text that yields nothing resolves to the built-in defaults and
\* never to an error.  For every text parse_first_aid returns a result: with
\* no step parsed its steps are the knowledge-base steps of the context's
\* category, its critical warnings are never empty and at most 5, and with
\* no critical-warning line they are the one default safety warning;
\* parse_assessment returns a result whose recommendations are the fixed
\* 3-item default list when no line yields one, and otherwise the first 5 at
\* most of those found.
C30_DegenerateParseUsesDefaults ==
  /\ Returned("_parse_first_aid_response") =>
       LET text   == call.args.llm_response
           result == call.result[1]
       IN  /\ result.success
           /\ StepLines(text) = <<>> =>
                result.steps =
                  get_fallback_first_aid(call.args.context.emergency_type)
           /\ result.steps # <<>>
           /\ Len(result.critical_warnings) \in 1..MaxCriticalWarnings
           /\ ~Contains(lower(text), <<"c", "r", "i", "t", "i", "c", "a", "l", " ", "w", "a", "r", "n", "i", "n", "g">>) =>
                result.critical_warnings = <<<<"A", "l", "w", "a", "y", "s", " ", "p", "r", "i", "o", "r", "i", "t", "i", "z", "e", " ", "s", "a", "f", "e", "t", "y">>>>
  /\ Returned("_parse_assessment_response") =>
       LET found  == Recommendations(split(call.args.llm_response, "\n"), 1)
           result == call.result[1]
       IN  /\ result.success
           /\ found = <<>> =>
                result.recommendations =
                  <<<<"C", "a", "l", "l", " ", "e", "m", "e", "r", "g", "e", "n", "c", "y", " ", "s", "e", "r", "v", "i", "c", "e", "s", " ", "i", "f", " ", "t", "h", "e", " ", "s", "i", "t", "u", "a", "t", "i", "o", "n", " ", "w", "o", "r", "s", "e", "n", "s">>,
                    <<"M", "o", "n", "i", "t", "o", "r", " ", "t", "h", "e", " ", "p", "e", "r", "s", "o", "n", "'", "s", " ", "c", "o", "n", "d", "i", "t", "i", "o", "n", " ", "c", "l", "o", "s", "e", "l", "y">>,
                    <<"K", "e", "e", "p", " ", "t", "h", "e", " ", "p", "e", "r", "s", "o", "n", " ", "c", "a", "l", "m", " ", "a", "n", "d", " ", "c", "o", "m", "f", "o", "r", "t", "a", "b", "l", "e">>>>
           /\ found # <<>> =>
                /\ Len(result.recommendations) \in 1..MaxRecommendations
                /\ result.recommendations = FirstN(found, MaxRecommendations)

\* C30: parse_first_aid returned the knowledge-base steps and the default
\* warning for a text without a step line and without a critical warning
C30_Witness ==
  /\ Returned("_parse_first_aid_response")
  /\ call.args.llm_response # <<>>
  /\ StepLines(call.args.llm_response) = <<>>
  /\ ~Contains(lower(call.args.llm_response), <<"c", "r", "i", "t", "i", "c", "a", "l", " ", "w", "a", "r", "n", "i", "n", "g">>)
  /\ call.result[1].steps = get_fallback_first_aid(call.args.context.emergency_type)
  /\ Len(call.result[1].critical_warnings) = 1

\* C31: parse_assessment derives the severity from the keywords present in
\* the text, letters compared without case, in a fixed priority: critical if
\* "critical" appears, else medium if "medium" appears, else low if "low"
\* appears, else high; so the result is high exactly when none of the three
\* appears.
C31_SeverityByKeywordPriority ==
  Returned("_parse_assessment_response") =>
    LET has(word) == Contains(lower(call.args.llm_response), word)
        severity  == call.result[1].severity
    IN  /\ severity = IF has(<<"c", "r", "i", "t", "i", "c", "a", "l">>) THEN "critical"
                      ELSE IF has(<<"m", "e", "d", "i", "u", "m">>) THEN "medium"
                      ELSE IF has(<<"l", "o", "w">>) THEN "low"
                      ELSE "high"
        /\ severity = "high" <=>
             ~(has(<<"c", "r", "i", "t", "i", "c", "a", "l">>) \/ has(<<"m", "e", "d", "i", "u", "m">>) \/ has(<<"l", "o", "w">>))

\* C31: parse_assessment returned critical for a text that holds all three
\* keywords, "low" first
C31_Witness ==
  /\ Returned("_parse_assessment_response")
  /\ OccursAt(lower(call.args.llm_response), 1, <<"l", "o", "w">>)
  /\ Contains(lower(call.args.llm_response), <<"m", "e", "d", "i", "u", "m">>)
  /\ Contains(call.args.llm_response, <<"c", "r", "i", "t", "i", "c", "a", "l">>)
  /\ call.result[1].severity = "critical"

\* the buckets of an age: the first age of the bucket, the first age past it
\* (the last bucket is open: 1000 stands for no upper end) and its name
AgeBuckets ==
  {<<0, 18, <<"0", "-", "1", "8">>>>,
   <<18, 30, <<"1", "8", "-", "3", "0">>>>,
   <<30, 50, <<"3", "0", "-", "5", "0">>>>,
   <<50, 70, <<"5", "0", "-", "7", "0">>>>,
   <<70, 1000, <<"7", "0", "+">>>>}

C33_DetectReportsPhoneAndEmail ==
  Returned("detect_pii") =>
    LET r == call.result[1].pii_detected
    IN  /\ call.result[1].text = call.args
        /\ r.has_pii <=> \E k \in DOMAIN r \ {"has_pii"} : r[k] > 0
        /\ call.args = TextShortPhoneEmail =>
             r.phone_numbers > 0 /\ r.emails > 0 /\ r.has_pii

\* C34: warnings of the safety gate are diagnostic only: a request whose
\* validation outcome has warnings and no errors goes on to sanitize, parse
\* and cache store, never to the fallback, and ends with the response built
\* from the parsed data and no error
C34_WarningsAreDiagnosticOnly ==
  \A r \in DOMAIN req :
    (/\ req[r].validation_result # None
     /\ req[r].validation_result[1].errors = <<>>
     /\ req[r].validation_result[1].warnings # <<>>) =>
      /\ req[r].pc \in {"sanitize", "parse", "cache_store", "done"}
      /\ "fallback" \notin Range(req[r].stages)
      /\ req[r].raised = None
      /\ req[r].pc = "done" =>
           /\ req[r].stages = <<"anonymize", "cache_lookup", "orchestrate",
                                "validate", "sanitize", "parse", "cache_store">>
           /\ req[r].response # None
           /\ req[r].response = ResponseOf(req[r].kind, req[r].data[1])

\* C34: a response validated with warnings and no errors has been returned
C34_Witness ==
  \E r \in DOMAIN req :
    /\ req[r].pc = "done"
    /\ req[r].validation_result # None
    /\ req[r].validation_result[1].errors = <<>>
    /\ Len(req[r].validation_result[1].warnings) = 2
    /\ req[r].response # None
    /\ "cache_store" \in Range(req[r].stages)

\* C35: on the LLM path of the first-aid endpoint, when the provider's text
\* is valid and has k step lines on separate lines, 1 <= k <= 10, the parsed
\* result that is returned and cached has exactly k steps, numbered 1..k
C35_StepLinesSurviveSanitize ==
  \A r \in DOMAIN req :
    (/\ req[r].kind = "first_aid"
     /\ req[r].data # None) =>
      \A raw \in GuidanceTexts :
        (/\ req[r].llm_response = Some(sanitize_response(raw))
         /\ validate_llm_response(raw, "first_aid", TRUE).is_valid
         /\ Len(StepLines(raw)) \in 1..MaxSteps) =>
          /\ Len(req[r].data[1].steps) = Len(StepLines(raw))
          /\ \A i \in DOMAIN req[r].data[1].steps :
                req[r].data[1].steps[i].step_number = i

C38_AcceptedTextSanitizesHarmless ==
  (Returned("validate_llm_response") /\ call.result[1].is_valid) =>
    HARMFUL_PATTERNS(sanitize_response(call.args.response_text)) = <<>>

\* C39: a failure of the cache never fails a request: with the cache
\* disabled, or with a cache read that raises, the lookup is a miss and the
\* request goes on to the providers; a cache write that raises, or that the
\* disabled cache does not make, returns False, and the request still
\* returns the result of the LLM path, with no fallback and no error
C39_CacheFailureNeverFailsRequest ==
  [][\A r \in DOMAIN req :
        /\ (/\ req[r].pc = "cache_result" /\ req'[r] # req[r]
            /\ ~settings.ENABLE_CACHING \/ req[r].reply[1].raises) =>
             /\ req'[r].pc = "orchestrate"
             /\ req'[r].cached_response = None
             /\ req'[r].raised = None /\ req'[r].response = None
        /\ (req[r].pc = "cache_store" /\ req'[r] # req[r]) =>
             /\ RedisCache_set(FALSE, req[r].data[1], FALSE).result = FALSE
             /\ RedisCache_set(TRUE, req[r].data[1], TRUE).result = FALSE
             /\ req'[r].pc = "done"
             /\ req'[r].response # None
             /\ req'[r].response = ResponseOf(req[r].kind, req[r].data[1])
             /\ req'[r].raised = None
             /\ "fallback" \notin Range(req'[r].stages)
             /\ ~settings.ENABLE_CACHING => cache' = cache
    ]_vars

\* C39: with the cache disabled a request has gone through the lookup, the
\* providers and the cache store, and has returned the parsed result
C39_Witness ==
  \E r \in DOMAIN req :
    /\ ~settings.ENABLE_CACHING
    /\ req[r].pc = "done"
    /\ req[r].stages = <<"anonymize", "cache_lookup", "orchestrate",
                         "validate", "sanitize", "parse", "cache_store">>
    /\ req[r].response = ResponseOf(req[r].kind, req[r].data[1])
    /\ req[r].response # None
    /\ req[r].raised = None
    /\ cache = <<>>

\* what the scan does with line n of lines, by the precedence step-opening >
\* warning > duration > critical warning; a warning or a duration needs a
\* step opened by an earlier line
LineAction(lines, n) ==
  LET low  == lower(lines[n])
      open == OpenAt(lines, n) > 0
  IN  IF IsStepLine(lines[n]) THEN "step"
      ELSE IF Contains(low, <<"w", "a", "r", "n", "i", "n", "g">>) /\ open THEN "warning"
      ELSE IF Contains(low, <<"d", "u", "r", "a", "t", "i", "o", "n">>) /\ open THEN "duration"
      ELSE IF Contains(low, <<"c", "r", "i", "t", "i", "c", "a", "l", " ", "w", "a", "r", "n", "i", "n", "g">>) THEN "critical"
      ELSE "none"

\* C40: the line scan of parse_first_aid takes exactly one action per line,
\* by the precedence step-opening > warning > duration > critical warning: a
\* line with "step" and ":" opens a step whatever else it holds; a warning
\* or a duration goes to the step that is open, the one opened last, and to
\* no step closed before; with no step open a line with "warning" or
\* "duration" is dropped unless it holds "critical warning", and then it is
\* collected.  Stated for the texts whose steps and critical warnings the
\* caps of 10 and 5 leave whole.
C40_OneActionPerLineByPrecedence ==
  Returned("_parse_first_aid_response") =>
    LET lines == split(call.args.llm_response, "\n")
        steps == call.result[1].steps
        index == [n \in DOMAIN lines |-> n]
        critical(n) == LineAction(lines, n) = "critical"
        said(n) == AfterColonOrLine(strip(lines[n]))
        texts(ns, F(_)) == [i \in DOMAIN ns |-> F(ns[i])]
        whole(n) == strip(lines[n])
        collected == texts(SelectSeq(index, critical), whole)
    IN  (/\ Len(StepLines(call.args.llm_response)) <= MaxSteps
         /\ Len(collected) <= MaxCriticalWarnings) =>
          /\ StepLines(call.args.llm_response) # <<>> =>
               /\ Len(steps) = Len(StepLines(call.args.llm_response))
               /\ \A k \in DOMAIN steps :
                    LET warning(n) ==
                          LineAction(lines, n) = "warning" /\ OpenAt(lines, n) = k
                        duration(n) ==
                          LineAction(lines, n) = "duration" /\ OpenAt(lines, n) = k
                        last == SelectSeq(index, duration)
                    IN  /\ steps[k].instruction =
                             strip(afterFirstColon(strip(StepLines(call.args.llm_response)[k])))
                        /\ steps[k].warnings = texts(SelectSeq(index, warning), said)
                        /\ steps[k].duration =
                             IF last = <<>> THEN None ELSE Some(said(last[Len(last)]))
          /\ collected # <<>> => call.result[1].critical_warnings = collected
          /\ collected = <<>> =>
               call.result[1].critical_warnings =
                 <<<<"A", "l", "w", "a", "y", "s", " ", "p", "r", "i", "o", "r", "i", "t", "i", "z", "e", " ", "s", "a", "f", "e", "t", "y">>>>

\* C40: parse_first_aid has scanned a text in which a warning line comes
\* before any step and is dropped, and a later line with "step", ":",
\* "warning" and "duration" follows an open step and opens the second step
C40_Witness ==
  /\ Returned("_parse_first_aid_response")
  /\ LET lines == split(call.args.llm_response, "\n")
     IN  /\ Len(lines) = 3
         /\ LineAction(lines, 1) = "none"
         /\ Contains(lower(lines[1]), <<"w", "a", "r", "n", "i", "n", "g">>)
         /\ LineAction(lines, 2) = "step"
         /\ LineAction(lines, 3) = "step"
         /\ Contains(lower(lines[3]), <<"w", "a", "r", "n", "i", "n", "g">>)
         /\ Contains(lower(lines[3]), <<"d", "u", "r", "a", "t", "i", "o", "n">>)
  /\ Len(call.result[1].steps) = 2
  /\ call.result[1].steps[1].warnings = <<>>
  /\ call.result[1].steps[2].warnings = <<>>
  /\ Len(call.result[1].critical_warnings) = 1
====
